---- MODULE Spec2Model ----
(***************************************************************************)
(* MineAI: the task execution pipeline (TaskExecutor), the fallback        *)
(* command parser (LLMInterface.createFallbackCommand) and the parts of    *)
(* MinecraftBot the pipeline drives.                                       *)
(*                                                                         *)
(* JavaScript runs one synchronous segment at a time: an action of this    *)
(* model is one event-loop task (a console line, a promise resolution from *)
(* the network, a timer, an emitted bot event) together with every         *)
(* continuation it runs before the next task is taken.                     *)
(*                                                                         *)
(* Strings are sequences of characters.  Characters outside ASCII are      *)
(* written by code point: "u6B69" is U+6B69.                               *)
(***************************************************************************)
EXTENDS Integers, Sequences, FiniteSets, TLC

(***************************************************************************)
(* Bounds of the model.                                                    *)
(***************************************************************************)
\* number of executeCommand invocations in one behaviour
MaxCalls == 2
\* longest instruction explored by the fallback-parser specification
MaxLen == 3
\* largest limit getExecutionHistory is asked with
MaxLimit == 3

(***************************************************************************)
(* Characters and strings.                                                 *)
(***************************************************************************)
Digits == <<"0", "1", "2", "3", "4", "5", "6", "7", "8", "9">>

IsDigit(ch) == \E d \in 1..10 : Digits[d] = ch

DigitVal(ch) == (CHOOSE d \in 1..10 : Digits[d] = ch) - 1

UpperCase ==
  <<"A", "B", "C", "D", "E", "F", "G", "H", "I", "J", "K", "L", "M",
    "N", "O", "P", "Q", "R", "S", "T", "U", "V", "W", "X", "Y", "Z">>

LowerCase ==
  <<"a", "b", "c", "d", "e", "f", "g", "h", "i", "j", "k", "l", "m",
    "n", "o", "p", "q", "r", "s", "t", "u", "v", "w", "x", "y", "z">>

\* String.prototype.toLowerCase: the characters of the model with a lower
\* case are the letters A to Z
LowerChar(ch) ==
  IF \E k \in 1..26 : UpperCase[k] = ch
  THEN LowerCase[CHOOSE k \in 1..26 : UpperCase[k] = ch]
  ELSE ch

\* a mutation of toLowerCase: the text is compared as typed
caseKept(s) == s

toLowerCase(s) == [k \in 1..Len(s) |-> LowerChar(s[k])]

\* String.prototype.includes
includes(s, sub) ==
  \E k \in 1..(Len(s) - Len(sub) + 1) : SubSeq(s, k, k + Len(sub) - 1) = sub

\* instruction.match(/\d+/g): the maximal runs of ASCII digits, left to
\* right; <<>> stands for null (no match)
RECURSIVE MatchFrom(_, _)
MatchFrom(s, k) ==
  IF k > Len(s) THEN <<>>
  ELSE IF ~IsDigit(s[k]) THEN MatchFrom(s, k + 1)
  ELSE LET last == CHOOSE j \in k..Len(s) :
                     /\ \A m \in k..j : IsDigit(s[m])
                     /\ (j = Len(s) \/ ~IsDigit(s[j + 1]))
       IN  <<SubSeq(s, k, last)>> \o MatchFrom(s, last + 1)

matchDigits(s) == MatchFrom(s, 1)

\* parseInt on a string of decimal digits
RECURSIVE parseInt(_)
parseInt(ds) ==
  IF Len(ds) = 0 THEN 0
  ELSE 10 * parseInt(SubSeq(ds, 1, Len(ds) - 1)) + DigitVal(ds[Len(ds)])

(***************************************************************************)
(* Keywords of the fallback parser.                                        *)
(***************************************************************************)
\* U+6B69 (step), U+9032 (advance), U+79FB U+52D5 (move)
KwHo == <<"u6B69">>
KwSusumu == <<"u9032">>
KwIdou == <<"u79FB", "u52D5">>
\* U+30C1 U+30E3 U+30C3 U+30C8 (chat), U+8A71 (talk), U+8A00 (say)
KwChatto == <<"u30C1", "u30E3", "u30C3", "u30C8">>
KwHanasu == <<"u8A71">>
KwIu == <<"u8A00">>
\* U+6398 (dig), U+63A1 U+6398 (mining), "mine"
KwHoru == <<"u6398">>
KwSaikutsu == <<"u63A1", "u6398">>
KwMine == <<"m", "i", "n", "e">>

\* the greeting of the chat branch and the apology of the last branch
MsgHello == "konnichiwa!"
MsgSorry == "sumimasen, shiji wo rikai dekimasen deshita"

(***************************************************************************)
(* LLMInterface.createFallbackCommand                                      *)
(***************************************************************************)
\* the last number of the instruction instead of the first
FallbackDistanceLast(instruction) ==
  LET numbers == matchDigits(instruction)
  IN  IF numbers # <<>> THEN parseInt(numbers[Len(numbers)]) ELSE 1

\* lines 173-174
FallbackDistance(instruction) ==
  LET numbers == matchDigits(instruction)
  IN  IF numbers # <<>> THEN parseInt(numbers[1]) ELSE 1

FallbackMove(instruction) ==
  LET distance == FallbackDistance(instruction)
  IN  [success |-> TRUE,
       actions |-> <<[action |-> "moveRelative",
                      params |-> [x |-> distance, y |-> 0, z |-> 0]]>>,
       reasoning |-> <<distance, "burokku zenshin shimasu">>,
       originalInput |-> instruction,
       fallback |-> TRUE]

FallbackChat(instruction) ==
  [success |-> TRUE,
   actions |-> <<[action |-> "chat", params |-> [message |-> MsgHello]]>>,
   reasoning |-> <<"chatto de messeji wo soushin shimasu">>,
   originalInput |-> instruction,
   fallback |-> TRUE]

FallbackMine(instruction) ==
  [success |-> TRUE,
   actions |-> <<[action |-> "mine",
                  params |-> [blockType |-> "any", amount |-> 1]]>>,
   reasoning |-> <<"burokku wo saikutsu shimasu">>,
   originalInput |-> instruction,
   fallback |-> TRUE]

\* a plan without any action when no keyword matches
FallbackUnknownEmpty(instruction) ==
  [success |-> FALSE,
   error |-> "shiji wo rikai dekimasen deshita",
   actions |-> <<>>,
   reasoning |-> <<"shiji ga fumeikaku desu">>,
   originalInput |-> instruction,
   fallback |-> TRUE]

\* null when no keyword matches, as the earlier parser answered a failure
FallbackUnknownNull(instruction) == [null |-> TRUE]

\* lines 216-227
FallbackUnknown(instruction) ==
  [success |-> FALSE,
   error |-> "shiji wo rikai dekimasen deshita",
   actions |-> <<[action |-> "chat", params |-> [message |-> MsgSorry]]>>,
   reasoning |-> <<"shiji ga fumeikaku desu">>,
   originalInput |-> instruction,
   fallback |-> TRUE]

\* a mutation of createFallbackCommand: the chat keywords are looked for
\* before the movement keywords
createFallbackCommandChatFirst(instruction) ==
  LET input == toLowerCase(instruction)
  IN  IF includes(input, KwChatto) \/ includes(input, KwHanasu)
         \/ includes(input, KwIu)
      THEN FallbackChat(instruction)
      ELSE IF includes(input, KwHo) \/ includes(input, KwSusumu)
              \/ includes(input, KwIdou)
      THEN FallbackMove(instruction)
      ELSE IF includes(input, KwHoru) \/ includes(input, KwSaikutsu)
              \/ includes(input, KwMine)
      THEN FallbackMine(instruction)
      ELSE FallbackUnknown(instruction)

createFallbackCommand(instruction) ==
  LET input == toLowerCase(instruction)
  IN  IF includes(input, KwHo) \/ includes(input, KwSusumu)
         \/ includes(input, KwIdou)
      THEN FallbackMove(instruction)
      ELSE IF includes(input, KwChatto) \/ includes(input, KwHanasu)
              \/ includes(input, KwIu)
      THEN FallbackChat(instruction)
      ELSE IF includes(input, KwHoru) \/ includes(input, KwSaikutsu)
              \/ includes(input, KwMine)
      THEN FallbackMine(instruction)
      ELSE FallbackUnknown(instruction)

(***************************************************************************)
(* State.                                                                  *)
(***************************************************************************)
VARIABLES
  \* TaskExecutor fields
  isExecuting, taskQueue, executionHistory,
  \* MinecraftBot fields: botObj is "this.bot is not null"
  botObj, isConnected,
  \* the mineflayer bot: the connection (session), the 'spawn' listener registered
  \* with once, health, entity position (in half blocks), the pathfinder
  \* goal and the listeners registered with once('goal_reached')
  session, spawnPending, health, position, goal, listeners,
  \* the executeCommand invocations: calls[c] is the activation record of
  \* the c-th invocation, nextCall the number of the next one
  calls, nextCall,
  \* the console of MinecraftAIAgent: the last line readline delivered and
  \* what its handler did with it; the node process: exitCode is "none" while
  \* it runs, then the argument of process.exit
  lastLine, exitCode,
  \* the last answer of getExecutionHistory and the limit it was asked with
  historyView

vars == <<isExecuting, taskQueue, executionHistory, botObj, isConnected,
          session, spawnPending, health, position, goal, listeners,
          calls, nextCall, lastLine, exitCode, historyView>>

Null == [null |-> TRUE]

CallIds == 1..MaxCalls

\* the state one synchronous segment reads and writes, as a record
St ==
  [isExecuting |-> isExecuting, taskQueue |-> taskQueue,
   executionHistory |-> executionHistory, botObj |-> botObj,
   isConnected |-> isConnected, health |-> health, position |-> position,
   goal |-> goal, listeners |-> listeners,
   calls |-> calls]

Commit(T) ==
  /\ isExecuting' = T.isExecuting
  /\ taskQueue' = T.taskQueue
  /\ executionHistory' = T.executionHistory
  /\ botObj' = T.botObj
  /\ isConnected' = T.isConnected
  /\ health' = T.health
  /\ position' = T.position
  /\ goal' = T.goal
  /\ listeners' = T.listeners
  /\ calls' = T.calls

\* an activation record before the call is made
NewCall ==
  [pc |-> "new", admitted |-> FALSE, input |-> <<>>, parsed |-> Null,
   plan |-> <<>>, i |-> 0, successCount |-> 0, result |-> FALSE,
   await |-> 0, sub |-> Null, trace |-> <<>>]

Log(S, c, ev) == [S EXCEPT !.calls[c].trace = Append(@, ev)]

(***************************************************************************)
(* Inputs: the instructions typed at the console and what the parser can   *)
(* answer.                                                                 *)
(***************************************************************************)
\* "mae ni 3 ho aruite" (walk 3 steps forward)
InstrWalk3 == <<"u524D", "u306B", "3", "u6B69", "u6B69", "u3044", "u3066">>
\* "nanika sakende" (shout something): no fallback keyword
InstrShout == <<"u4F55", "u304B", "u53EB", "u3093", "u3067">>
\* "susunde" (go on): a movement keyword and no number
InstrGo == <<"u9032", "u3093", "u3067">>

Instructions == {InstrWalk3, InstrShout, InstrGo}

Move(x, y, z) == [action |-> "move", params |-> [x |-> x, y |-> y, z |-> z]]
MoveRelative(x, y, z) ==
  [action |-> "moveRelative", params |-> [x |-> x, y |-> y, z |-> z]]
Mine(b) == [action |-> "mine", params |-> [blockType |-> b, amount |-> 1]]
Collect(t, n) == [action |-> "collect", params |-> [itemType |-> t, amount |-> n]]
Chat(m) == [action |-> "chat", params |-> [message |-> m]]
Place == [action |-> "place", params |-> [blockType |-> "stone", position |-> Null]]
\* an action the language model returned without params and parameters
MoveNoParams == [action |-> "move"]

\* actions with invalid parameters: a coordinate that is not a number, no
\* block type, no message
InvalidPlan ==
  << [action |-> "move", params |-> [x |-> 12, z |-> 20]],
     [action |-> "moveRelative", params |-> [y |-> 0, z |-> 0]],
     Mine(""), Chat(""), Chat("hi") >>

\* action lists the language model can answer with
LLMPlans ==
  { <<>>,
    InvalidPlan,
    <<Chat("hi")>>,
    <<Move(12, 64, 20), Mine("stone")>>,
    <<MoveNoParams, Chat("hi"), Place>>,
    <<Collect("oak_log", 2)>>,
    <<Collect("oak_log", 0)>> }

\* what the world offers to one dispatch: the names of the blocks within
\* reach of findBlocks, nearest first, and the number of item entities in
\* range that pass the filter of collectItems
MaxFound == 4
MaxItems == 2
NoEnv == [near |-> <<>>, items |-> 0]

Copies(name, k) == [j \in 1..k |-> name]

\* up to MaxFound blocks of stone lie within reach of findBlocks
NearBy == { Copies("stone", k) : k \in 0..MaxFound }

\* the choices that matter to the dispatch of task
EnvsFor(task) ==
  IF task.action = "mine" THEN [near : NearBy, items : {0}]
  ELSE IF task.action = "collect" THEN [near : {<<>>}, items : 0..MaxItems]
  ELSE {NoEnv}

\* where the dropped items lie (entity.position, floored)
ItemSpot == [x |-> 11, y |-> 64, z |-> 20]

(***************************************************************************)
(* MinecraftBot                                                            *)
(***************************************************************************)
\* Math.floor of a coordinate held in half blocks, in blocks
floor(h) == h \div 2

\* a mutation of isAlive: the health is not looked at
isAliveConnected(S) == S.botObj /\ S.isConnected

isAlive(S) == S.botObj /\ S.isConnected /\ S.health > 0

\* the connection test left out
getGameStateAlways(S) ==
  [position |-> [x |-> floor(S.position.x), y |-> floor(S.position.y),
                 z |-> floor(S.position.z)],
   health |-> S.health]

\* lines 125-144
getGameState(S) ==
  IF ~S.botObj \/ ~S.isConnected THEN Null
  ELSE [position |-> [x |-> floor(S.position.x), y |-> floor(S.position.y),
                      z |-> floor(S.position.z)],
        health |-> S.health]

NotConnected(S) == ~S.botObj \/ ~S.isConnected

\* pathfinder.setGoal(goal) followed by bot.once('goal_reached', ...) in a
\* new promise: call c now waits for the event (or for its timer)
SetGoalAndListen(S, c, g, pcWait) ==
  LET k == S.calls[c].await + 1
  IN  [S EXCEPT !.goal = g,
                !.listeners = Append(@, [c |-> c, k |-> k]),
                !.calls[c].await = k,
                !.calls[c].pc = pcWait]

GoalBlock(x, y, z, c) ==
  [type |-> "GoalBlock", x |-> floor(x), y |-> floor(y), z |-> floor(z),
   by |-> c]

GoalLookAtBlock(c) == [type |-> "GoalLookAtBlock", by |-> c]

(***************************************************************************)
(* TaskExecutor                                                            *)
(***************************************************************************)
RECURSIVE Loop(_, _, _)

\* the latch test left out
BusyNever(S) == FALSE

\* line 20: the latch test
Busy(S) == S.isExecuting

\* the latch released only on the normal path, no finally block
FinallySkipped(S) == S

\* lines 116-118: finally { this.isExecuting = false }
Finally(S) == [S EXCEPT !.isExecuting = FALSE]

\* the promise of executeCommand resolves with value v
Return(S, c, v) ==
  [Log(S, c, [e |-> "return", value |-> v])
     EXCEPT !.calls[c].pc = "done", !.calls[c].result = v]

\* success only if every action succeeded
VerdictAll(successCount, n) == successCount = n

\* line 111
Verdict(successCount, n) == successCount > 0

\* a mutation of Summary: the history entry is appended after the return value
\* is settled
SummaryHistoryLast(S, c) ==
  LET call == S.calls[c]
      entry == [input |-> call.input, tasks |-> call.plan,
                successCount |-> call.successCount]
      S1 == Return(S, c, Verdict(call.successCount, Len(call.plan)))
  IN  Finally(Log([S1 EXCEPT !.executionHistory = Append(@, entry)], c,
                  [e |-> "historyPush"]))

\* lines 98-111, then finally
Summary(S, c) ==
  LET call == S.calls[c]
      entry == [input |-> call.input, tasks |-> call.plan,
                successCount |-> call.successCount]
      S1 == Log([S EXCEPT !.executionHistory = Append(@, entry)], c,
                [e |-> "historyPush"])
  IN  Finally(Return(S1, c, Verdict(call.successCount, Len(call.plan))))

\* a mutation of Catch: the failed command is recorded in the history
CatchRecorded(S, c) == Summary(Log(S, c, [e |-> "catch"]), c)

\* lines 113-115, then finally
Catch(S, c) == Finally(Return(Log(S, c, [e |-> "catch"]), c, FALSE))

\* a wait after every action, the last one included
HasNextAlways(i, n) == i < n

\* line 93
HasNext(i, n) == i < n - 1

InterActionDelay == 1000

\* lines 85-96: the result of executeTask arrives in the dispatch loop
TaskResult(S, c, success, env) ==
  LET call == S.calls[c]
      S1 == Log([S EXCEPT !.calls[c].successCount =
                            IF success THEN @ + 1 ELSE @,
                          !.calls[c].sub = Null],
                c, [e |-> "taskResult", index |-> call.i, success |-> success])
  IN  IF HasNext(call.i, Len(call.plan))
      THEN [Log(S1, c, [e |-> "wait", ms |-> InterActionDelay])
              EXCEPT !.calls[c].pc = "waiting"]
      ELSE Loop([S1 EXCEPT !.calls[c].i = @ + 1], c, env)

\* no try/catch in executeTask: what the action threw reaches the catch
\* block of executeCommand
TaskEscapes(S, c, env) == Catch(Log(S, c, [e |-> "taskThrew"]), c)

\* lines 179-182: executeTask catches what the action threw
TaskThrew(S, c, env) == TaskResult(Log(S, c, [e |-> "taskThrew"]), c, FALSE, env)

\* MinecraftBot.moveToPosition, lines 220-229; x, y, z in half blocks
moveToPosition(S, c, x, y, z, env) ==
  IF NotConnected(S) THEN TaskThrew(S, c, env)
  ELSE SetGoalAndListen(
         Log(S, c, [e |-> "moveToPosition", x |-> x, y |-> y, z |-> z]),
         c, GoalBlock(x, y, z, c), "moving")

\* typeof params[f] === 'number'; a value that is not a number is modelled
\* by the absence of the field (undefined)
IsNumber(params, f) == f \in DOMAIN params /\ params[f] \in Int

\* lines 188-196
executeMove(S, c, task, env) ==
  IF "params" \notin DOMAIN task THEN TaskThrew(S, c, env)
  ELSE LET params == task.params
       IN  IF ~IsNumber(params, "x") \/ ~IsNumber(params, "y") \/ ~IsNumber(params, "z")
           THEN TaskResult(S, c, FALSE, env)
           ELSE moveToPosition(S, c, 2 * params.x, 2 * params.y, 2 * params.z, env)

\* the delta added to the position of the state snapshot taken before parsing
executeMoveRelativeSnapshot(S, c, task, env) ==
  LET tr == S.calls[c].trace
      snapshot == tr[CHOOSE j \in 1..Len(tr) : tr[j].e = "parseCommand"].state
  IN  moveToPosition(S, c, 2 * (snapshot.position.x + task.params.x),
                     2 * (snapshot.position.y + task.params.y),
                     2 * (snapshot.position.z + task.params.z), env)

\* lines 201-221
executeMoveRelative(S, c, task, env) ==
  IF "params" \notin DOMAIN task THEN TaskThrew(S, c, env)
  ELSE LET params == task.params
       IN  IF ~IsNumber(params, "x") \/ ~IsNumber(params, "y") \/ ~IsNumber(params, "z")
           THEN TaskResult(S, c, FALSE, env)
           ELSE IF ~S.botObj THEN TaskThrew(S, c, env)
           ELSE LET currentPos == S.position
                IN  moveToPosition(S, c, currentPos.x + 2 * params.x,
                                   currentPos.y + 2 * params.y,
                                   currentPos.z + 2 * params.z, env)

\* MinecraftBot.mineBlock tries blocks.slice(0, 3)
MaxTried == 3

Min(a, b) == IF a < b THEN a ELSE b

\* MinecraftBot.mineBlock, lines 270-282: approach the next candidate
MineApproach(S, c) == SetGoalAndListen(S, c, GoalLookAtBlock(c), "approaching")

\* a mutation of findBlocks: every block within reach matches
findBlocksNearby(near, blockType) == near

\* bot.findBlocks with matching: (block) => block.name === blockType
findBlocks(near, blockType) == SelectSeq(near, LAMBDA name : name = blockType)

\* MinecraftBot.mineBlock, lines 248-268
mineBlock(S, c, blockType, env) ==
  IF NotConnected(S) THEN TaskThrew(S, c, env)
  ELSE LET blocks == findBlocks(env.near, blockType)
           S1 == Log(S, c, [e |-> "mineBlock", blockType |-> blockType,
                            near |-> env.near])
       IN  IF Len(blocks) = 0 THEN TaskResult(S1, c, FALSE, env)
           ELSE MineApproach(
                  [S1 EXCEPT !.calls[c].sub = [left |-> Min(Len(blocks), MaxTried)]],
                  c)

\* MinecraftBot.mineBlock, line 285: the approach is over (reached or 5 s
\* elapsed), bot.dig is called
DigStart(S, c) == [Log(S, c, [e |-> "dig"]) EXCEPT !.calls[c].pc = "digging"]

\* MinecraftBot.mineBlock, lines 285-295: bot.dig resolved or rejected
DigResult(S, c, ok, env) ==
  IF ok THEN TaskResult(Log(S, c, [e |-> "dug"]), c, TRUE, env)
  ELSE LET left == S.calls[c].sub.left - 1
       IN  IF left > 0
           THEN MineApproach([S EXCEPT !.calls[c].sub.left = left], c)
           ELSE TaskResult(S, c, FALSE, env)

\* a mutation of executeMine: the block type is passed on unchecked
executeMineUnchecked(S, c, task, env) ==
  IF "params" \notin DOMAIN task THEN TaskThrew(S, c, env)
  ELSE mineBlock(S, c, task.params.blockType, env)

\* lines 226-234
executeMine(S, c, task, env) ==
  IF "params" \notin DOMAIN task THEN TaskThrew(S, c, env)
  ELSE IF task.params.blockType = "" THEN TaskResult(S, c, FALSE, env)
  ELSE mineBlock(S, c, task.params.blockType, env)

\* line 242: return collected > 0
executeCollectResult(S, c, collected, env) ==
  TaskResult(S, c, collected > 0, env)

\* MinecraftBot.collectItems, lines 309-355: the for loop over the entities
CollectLoop(S, c, env) ==
  LET sub == S.calls[c].sub
  IN  IF sub.items = 0 \/ sub.collected >= sub.amount
      THEN executeCollectResult(S, c, sub.collected, env)
      ELSE SetGoalAndListen(
             [S EXCEPT !.calls[c].sub.items = @ - 1], c,
             GoalBlock(2 * ItemSpot.x, 2 * ItemSpot.y, 2 * ItemSpot.z, c),
             "collecting")

\* MinecraftBot.collectItems, lines 343-347: the approach is over (reached
\* or 10 s elapsed)
CollectGot(S, c) ==
  [Log(S, c, [e |-> "collected"])
     EXCEPT !.calls[c].sub.collected = @ + 1, !.calls[c].pc = "collectPause"]

\* MinecraftBot.collectItems, lines 301-307
collectItems(S, c, itemType, amount, env) ==
  IF NotConnected(S) THEN TaskThrew(S, c, env)
  ELSE CollectLoop(
         [Log(S, c, [e |-> "collectItems", itemType |-> itemType,
                     amount |-> amount])
            EXCEPT !.calls[c].sub =
                     [items |-> env.items, collected |-> 0, amount |-> amount]],
         c, env)

\* lines 239-241
executeCollect(S, c, task, env) ==
  IF "params" \notin DOMAIN task THEN TaskThrew(S, c, env)
  ELSE LET params == task.params
           amount == IF "amount" \in DOMAIN params THEN params.amount ELSE 1
       IN  collectItems(S, c, params.itemType, amount, env)

\* MinecraftBot.sendChat, lines 361-368
sendChat(S, c, message, env) ==
  IF NotConnected(S) THEN TaskThrew(S, c, env)
  ELSE TaskResult(Log(S, c, [e |-> "sendChat", message |-> message]),
                  c, TRUE, env)

\* the value of sendChat, which returns nothing, given back as the result
executeChatSendValue(S, c, task, env) ==
  IF "params" \notin DOMAIN task THEN TaskThrew(S, c, env)
  ELSE IF task.params.message = "" \/ NotConnected(S)
  THEN TaskResult(S, c, FALSE, env)
  ELSE TaskResult(Log(S, c, [e |-> "sendChat", message |-> task.params.message]),
                  c, FALSE, env)

\* lines 248-257
executeChat(S, c, task, env) ==
  IF "params" \notin DOMAIN task THEN TaskThrew(S, c, env)
  ELSE IF task.params.message = "" THEN TaskResult(S, c, FALSE, env)
  ELSE sendChat(S, c, task.params.message, env)

\* a stub that reports success
executePlaceDone(S, c, task, env) == TaskResult(S, c, TRUE, env)

\* lines 262-273
executePlace(S, c, task, env) == TaskResult(S, c, FALSE, env)
executeCraft(S, c, task, env) == TaskResult(S, c, FALSE, env)

\* lines 126-183
executeTask(S, c, env) ==
  LET call == S.calls[c]
      task == call.plan[call.i + 1]
      S1 == Log(S, c, [e |-> "executeTask", index |-> call.i, task |-> task])
  IN  IF ~isAlive(S1) THEN TaskResult(S1, c, FALSE, env)
      ELSE CASE task.action = "move" -> executeMove(S1, c, task, env)
             [] task.action = "moveRelative" -> executeMoveRelative(S1, c, task, env)
             [] task.action = "mine" -> executeMine(S1, c, task, env)
             [] task.action = "collect" -> executeCollect(S1, c, task, env)
             [] task.action = "chat" -> executeChat(S1, c, task, env)
             [] task.action = "place" -> executePlace(S1, c, task, env)
             [] task.action = "craft" -> executeCraft(S1, c, task, env)
             [] OTHER -> TaskResult(S1, c, FALSE, env)

\* a mutation of Loop: the head of the loop reads the latch and gives up
\* once emergencyStop has dropped it
LoopLatched(S, c, env) ==
  IF ~S.isExecuting THEN Finally(Return(S, c, FALSE))
  ELSE IF S.calls[c].i < Len(S.calls[c].plan)
  THEN executeTask(S, c, env)
  ELSE Summary(S, c)

\* line 81: the head of the dispatch loop
Loop(S, c, env) ==
  IF S.calls[c].i < Len(S.calls[c].plan)
  THEN executeTask(S, c, env)
  ELSE Summary(S, c)

\* the test of the length left out
NoActionsNoLength(parsedCommand) ==
  \/ parsedCommand = Null
  \/ "actions" \notin DOMAIN parsedCommand

\* line 46
NoActions(parsedCommand) ==
  \/ parsedCommand = Null
  \/ "actions" \notin DOMAIN parsedCommand
  \/ Len(parsedCommand.actions) = 0

\* lines 41-85: the promise of parseCommand settles
ParserSettled(S, c, out, env) ==
  LET S1 == [S EXCEPT !.calls[c].parsed = out]
  IN  IF out.threw THEN Catch(S1, c)
      ELSE IF NoActions(out.value) THEN Finally(Return(S1, c, FALSE))
      ELSE Loop([S1 EXCEPT !.calls[c].plan = out.value.actions,
                           !.calls[c].i = 0,
                           !.calls[c].successCount = 0], c, env)

\* lines 19-41: from the invocation to the await of parseCommand
executeCommand(S, c, userInput) ==
  LET S0 == [S EXCEPT !.calls[c].input = userInput]
  IN  IF Busy(S0) THEN Return(S0, c, FALSE)
      ELSE LET S1 == [S0 EXCEPT !.isExecuting = TRUE, !.calls[c].admitted = TRUE]
               gameState == getGameState(S1)
               S2 == Log(S1, c, [e |-> "getGameState", state |-> gameState])
           IN  IF gameState = Null THEN Finally(Return(S2, c, FALSE))
               ELSE [Log(S2, c, [e |-> "parseCommand", input |-> userInput,
                                 state |-> gameState])
                       EXCEPT !.calls[c].pc = "parsing"]

\* the latch and the queue reset, the goal of the pathfinder left alone
emergencyStopLatchOnly(S) == [S EXCEPT !.isExecuting = FALSE, !.taskQueue = <<>>]

\* lines 311-322
emergencyStop(S) ==
  LET S1 == [S EXCEPT !.isExecuting = FALSE, !.taskQueue = <<>>]
  IN  IF S1.botObj THEN [S1 EXCEPT !.goal = Null] ELSE S1

\* Array.prototype.slice(start) of a list of len elements: the index of the
\* first element kept; a negative start counts from the end, and -0 is 0
SliceFrom(start, len) ==
  IF start < 0 THEN (IF len + start > 0 THEN len + start ELSE 0)
  ELSE IF start < len THEN start ELSE len

\* lines 285-287: this.executionHistory.slice(-limit)
getExecutionHistory(S, limit) ==
  LET len == Len(S.executionHistory)
  IN  SubSeq(S.executionHistory, SliceFrom(0 - limit, len) + 1, len)

(***************************************************************************)
(* What parseCommand can settle with.                                      *)
(***************************************************************************)
Returned(v) == [threw |-> FALSE, value |-> v]
Threw == [threw |-> TRUE]

\* LLMInterface.parseCommand, lines 29-36: the language model answered
parseCommandOk(instruction, actions) ==
  [success |-> TRUE, actions |-> actions, reasoning |-> <<>>,
   originalInput |-> instruction]

ParseOutcomes(instruction) ==
  \* the call of the language model failed: lines 37-42
  { Returned(createFallbackCommand(instruction)) }
  \cup { Returned(parseCommandOk(instruction, p)) : p \in LLMPlans }
  \* the earlier parser: null on failure, and a result with tasks
  \* instead of actions
  \cup { Returned(Null), Returned([tasks |-> <<>>, summary |-> <<>>]) }
  \* the promise is rejected
  \cup { Threw }

(***************************************************************************)
(* LLMInterface.parseCommand over the answers of the language model.       *)
(*                                                                         *)
(* An answer is the text of the response.  JSON objects are records; a     *)
(* property the answer leaves out is a field the record does not have.     *)
(* The target of a task is [text |-> s] for a string and a record with x   *)
(* for a coordinates object.  Strings that the code searches are sequences *)
(* of characters.                                                          *)
(***************************************************************************)
\* messages.create rejected: network failure, timeout, refusal
ApiError == [kind |-> "error", whole |-> FALSE, braces |-> FALSE,
             inner |-> FALSE, json |-> Null]
\* a text without any {...}
NoJson == [kind |-> "text", whole |-> FALSE, braces |-> FALSE,
           inner |-> FALSE, json |-> Null]
\* a text with {...} that is not JSON
BrokenJson == [kind |-> "text", whole |-> FALSE, braces |-> TRUE,
               inner |-> FALSE, json |-> Null]
\* a text that is the JSON of v
Json(v) == [kind |-> "text", whole |-> TRUE, braces |-> TRUE,
            inner |-> TRUE, json |-> v]
\* a text around the JSON of v
Embedded(v) == [kind |-> "text", whole |-> FALSE, braces |-> TRUE,
                inner |-> TRUE, json |-> v]

\* lines 231-306
analyzeTask(response) ==
  IF response.kind = "error" THEN Threw
  ELSE IF response.whole THEN Returned(response.json)
  ELSE IF response.braces /\ response.inner THEN Returned(response.json)
  ELSE Threw

\* r.f || d for a number: d when r.f is undefined or 0
NumberOr(r, f, d) == IF f \in DOMAIN r /\ r[f] # 0 THEN r[f] ELSE d

\* task.details?.f || d
DetailOr(task, f, d) ==
  IF "details" \in DOMAIN task THEN NumberOr(task.details, f, d) ELSE d

DirForward == <<"f", "o", "r", "w", "a", "r", "d">>
DirBack == <<"b", "a", "c", "k">>
DirRight == <<"r", "i", "g", "h", "t">>
DirLeft == <<"l", "e", "f", "t">>
DirUp == <<"u", "p">>
DirDown == <<"d", "o", "w", "n">>
\* U+307E U+3063 U+3059 U+3050 (straight)
DirMassugu == <<"u307E", "u3063", "u3059", "u3050">>

\* lines 142-161
parseDirection(direction, distance) ==
  LET dir == toLowerCase(direction)
  IN  IF includes(dir, <<"u524D">>) \/ includes(dir, DirForward)
         \/ includes(dir, DirMassugu)
      THEN [x |-> distance, y |-> 0, z |-> 0]
      ELSE IF includes(dir, <<"u5F8C">>) \/ includes(dir, DirBack)
      THEN [x |-> -distance, y |-> 0, z |-> 0]
      ELSE IF includes(dir, <<"u53F3">>) \/ includes(dir, DirRight)
      THEN [x |-> 0, y |-> 0, z |-> distance]
      ELSE IF includes(dir, <<"u5DE6">>) \/ includes(dir, DirLeft)
      THEN [x |-> 0, y |-> 0, z |-> -distance]
      ELSE IF includes(dir, <<"u4E0A">>) \/ includes(dir, DirUp)
      THEN [x |-> 0, y |-> distance, z |-> 0]
      ELSE IF includes(dir, <<"u4E0B">>) \/ includes(dir, DirDown)
      THEN [x |-> 0, y |-> -distance, z |-> 0]
      ELSE [x |-> distance, y |-> 0, z |-> 0]

\* the default message of a chat task, line 125
MsgHelloPlain == "konnichiwa"

\* lines 52-133: the actions one task contributes
convertTask(task) ==
  CASE task.type = "move" ->
         IF "x" \in DOMAIN task.target
         THEN <<[action |-> "move",
                 params |-> [x |-> task.target.x,
                             y |-> NumberOr(task.target, "y", 64),
                             z |-> task.target.z]]>>
         ELSE IF "details" \in DOMAIN task
                 /\ "direction" \in DOMAIN task.details
                 /\ task.details.direction # <<>>
         THEN <<[action |-> "moveRelative",
                 params |-> parseDirection(task.details.direction,
                                           NumberOr(task.details, "distance", 1))]>>
         ELSE <<[action |-> "moveRelative",
                 params |-> [x |-> 1, y |-> 0, z |-> 0]]>>
    [] task.type \in {"dig", "mine"} ->
         <<[action |-> "mine",
            params |-> [blockType |-> task.target.text,
                        amount |-> DetailOr(task, "amount", 1)]]>>
    [] task.type = "collect" ->
         <<[action |-> "collect",
            params |-> [itemType |-> task.target.text,
                        amount |-> DetailOr(task, "amount", 1)]]>>
    [] task.type = "place" ->
         <<[action |-> "place",
            params |-> [blockType |-> task.target.text, position |-> Null]]>>
    [] task.type = "craft" ->
         <<[action |-> "craft",
            params |-> [item |-> task.target.text,
                        amount |-> DetailOr(task, "amount", 1)]]>>
    [] task.type = "chat" ->
         <<[action |-> "chat",
            params |-> [message |-> IF task.target.text # "" THEN task.target.text
                                    ELSE MsgHelloPlain]]>>
    [] OTHER -> <<>>

\* a mutation of convertTasksToActions: the loop ends after the first task
convertFirstTask(tasks) ==
  IF tasks = <<>> THEN <<>> ELSE convertTask(Head(tasks))

\* lines 48-137
RECURSIVE convertTasksToActions(_)
convertTasksToActions(tasks) ==
  IF tasks = <<>> THEN <<>>
  ELSE convertTask(Head(tasks)) \o convertTasksToActions(Tail(tasks))

\* null in place of the fallback plan, as the earlier parser answered
parseCommandCatchNull(instruction) == Returned(Null)

\* lines 37-42: the catch block
parseCommandCatch(instruction) == Returned(createFallbackCommand(instruction))

\* lines 21-43; the answer null makes analysisResult.tasks throw
parseCommand(instruction, response) ==
  LET analysisResult == analyzeTask(response)
      out == IF analysisResult.threw THEN parseCommandCatch(instruction)
             ELSE IF analysisResult.value = Null
             THEN parseCommandCatch(instruction)
             ELSE Returned(parseCommandOk(
                    instruction,
                    convertTasksToActions(
                      IF "tasks" \in DOMAIN analysisResult.value
                      THEN analysisResult.value.tasks ELSE <<>>)))
  IN  [threw |-> out.threw, value |-> out.value, llm |-> response]

\* tasks of the answers
TaskMoveDir(direction, distance) ==
  [type |-> "move", target |-> [text |-> "relative"],
   details |-> [direction |-> direction, distance |-> distance]]
TaskMoveTo(target) == [type |-> "move", target |-> target]
TaskCollect(item) == [type |-> "collect", target |-> [text |-> item]]
TaskCollectN(item, amount) ==
  [type |-> "collect", target |-> [text |-> item],
   details |-> [amount |-> amount]]
TaskPlace == [type |-> "place", target |-> [text |-> "stone"]]
TaskCraft == [type |-> "craft", target |-> [text |-> "stick"],
              details |-> [amount |-> 4]]
TaskChat(m) == [type |-> "chat", target |-> [text |-> m]]
TaskDance == [type |-> "dance", target |-> [text |-> ""]]
TaskDig(block) == [type |-> "dig", target |-> [text |-> block]]

\* directions of the answers: forward, U+524D (front), massugu, back,
\* U+5F8C U+308D (behind), right, U+53F3, LEFT, U+5DE6, up, U+4E0A, down,
\* U+4E0B, "Turn Right", "backup" (two keywords), "north" (no keyword)
Directions ==
  { DirForward, <<"u524D">>, DirMassugu, DirBack, <<"u5F8C", "u308D">>,
    DirRight, <<"u53F3">>, <<"L", "E", "F", "T">>, <<"u5DE6">>,
    DirUp, <<"u4E0A">>, DirDown, <<"u4E0B">>,
    <<"T", "u", "r", "n", " ", "R", "i", "g", "h", "t">>,
    <<"b", "a", "c", "k", "u", "p">>, <<"n", "o", "r", "t", "h">> }

\* the JSON objects the language model answers with
Answers ==
  { [tasks |-> <<TaskMoveDir(d, n)>>] : d \in Directions, n \in {1, 3} }
  \cup
  { [tasks |-> <<TaskMoveDir(DirForward, 3), TaskMoveDir(DirUp, 2)>>],
    [tasks |-> <<TaskMoveTo([text |-> "relative"])>>],
    [tasks |-> <<[type |-> "move", target |-> [text |-> "relative"],
                  details |-> [distance |-> 5]]>>],
    [tasks |-> <<TaskMoveTo([x |-> 12, y |-> 0, z |-> 20])>>],
    [tasks |-> <<TaskMoveTo([x |-> 12, y |-> 70, z |-> 20])>>],
    [tasks |-> <<TaskDance, TaskChat("hi"), TaskDance, TaskDig("stone"),
                 [type |-> "attack", target |-> [text |-> "zombie"]],
                 TaskPlace>>],
    [tasks |-> <<TaskMoveDir(DirBack, 1), TaskMoveDir(DirLeft, 0)>>],
    [tasks |-> <<TaskMoveTo([x |-> 12, z |-> 20]), TaskChat("hi")>>],
    [tasks |-> <<TaskCollect("oak_log")>>],
    [tasks |-> <<TaskCollectN("oak_log", 2)>>],
    [tasks |-> <<TaskCollectN("oak_log", 0)>>],
    [tasks |-> <<TaskCollectN("oak_log", -1)>>],
    [tasks |-> <<TaskPlace, TaskCraft>>],
    [tasks |-> <<TaskDig("stone")>>],
    [tasks |-> <<TaskDig("cobblestone")>>],
    [tasks |-> <<[type |-> "mine", target |-> [text |-> "stone"],
                  details |-> [amount |-> 3]]>>],
    [tasks |-> <<TaskDance>>],
    [reasoning |-> <<>>] }

LLMResponses ==
  {ApiError, NoJson, BrokenJson, Json(Null)}
  \cup { Json(v) : v \in Answers }
  \cup { Embedded([tasks |-> <<TaskChat("hi")>>]) }

ParserOutcomes(instruction) ==
  { parseCommand(instruction, r) : r \in LLMResponses }

(***************************************************************************)
(* Initial state: the objects are constructed, connect() was not called.   *)
(***************************************************************************)
StartPosition == [x |-> 21, y |-> 128, z |-> 41]

Init ==
  /\ isExecuting = FALSE
  /\ taskQueue = <<>>
  /\ executionHistory = <<>>
  /\ botObj = FALSE
  /\ isConnected = FALSE
  /\ session = "none"
  /\ spawnPending = FALSE
  /\ health = 20
  /\ position = StartPosition
  /\ goal = Null
  /\ listeners = <<>>
  /\ calls = [c \in CallIds |-> NewCall]
  /\ nextCall = 1
  /\ lastLine = Null
  /\ exitCode = "none"
  /\ historyView = Null

\* MinecraftAIAgent.initialize sets the console up once connect() has
\* resolved, that is once 'spawn' was handled
ConsoleReady == botObj /\ ~spawnPending

(***************************************************************************)
(* Actions of the executor.                                                *)
(***************************************************************************)
\* a console line that is not an administrative word: executeCommand(input)
Call(c, inputs) ==
  /\ ConsoleReady
  /\ c = nextCall
  /\ calls[c].pc = "new"
  /\ \E input \in inputs : Commit(executeCommand(St, c, input))
  /\ nextCall' = nextCall + 1
  /\ UNCHANGED <<session, spawnPending, lastLine, exitCode, historyView>>

\* the choices of the world that matter to the first dispatch
FirstEnvs(out) ==
  IF out.threw THEN {NoEnv}
  ELSE IF out.value = Null \/ "actions" \notin DOMAIN out.value THEN {NoEnv}
  ELSE IF out.value.actions = <<>> THEN {NoEnv}
  ELSE EnvsFor(out.value.actions[1])

\* the promise of parseCommand settles
ParserSettles(c, outcomes) ==
  /\ exitCode = "none"
  /\ calls[c].pc = "parsing"
  /\ \E out \in outcomes :
       \E env \in FirstEnvs(out) :
         Commit(ParserSettled(St, c, out, env))
  /\ UNCHANGED <<session, spawnPending, nextCall, lastLine, exitCode, historyView>>

\* the timer of wait(1000) between two actions fires
WaitElapsed(c) ==
  /\ exitCode = "none"
  /\ calls[c].pc = "waiting"
  /\ \E env \in (IF calls[c].i + 2 <= Len(calls[c].plan)
                   THEN EnvsFor(calls[c].plan[calls[c].i + 2])
                   ELSE {NoEnv}) :
       Commit(Loop([St EXCEPT !.calls[c].i = @ + 1], c, env))
  /\ UNCHANGED <<session, spawnPending, nextCall, lastLine, exitCode, historyView>>

\* the listener of call c is still pending
Live(S, l) ==
  /\ S.calls[l.c].await = l.k
  /\ S.calls[l.c].pc \in {"moving", "approaching", "collecting"}

\* what the 'goal_reached' listener of call c resolves
Resume(S, c, env) ==
  CASE S.calls[c].pc = "moving" ->
         TaskResult(Log(S, c, [e |-> "goal_reached"]), c, TRUE, env)
    [] S.calls[c].pc = "approaching" -> DigStart(S, c)
    [] S.calls[c].pc = "collecting" -> CollectGot(S, c)

RECURSIVE ResumeAll(_, _, _)
ResumeAll(S, ls, env) ==
  IF ls = <<>> THEN S
  ELSE LET l == Head(ls)
       IN  ResumeAll(IF Live(S, l) THEN Resume(S, l.c, env) ELSE S, Tail(ls), env)

\* where the bot stands when the goal g is reached
Reached(g, pos) ==
  IF g.type = "GoalBlock"
  THEN [x |-> 2 * g.x + 1, y |-> 2 * g.y, z |-> 2 * g.z + 1]
  ELSE pos

\* the pathfinder reaches its goal and emits 'goal_reached': every listener
\* registered with once runs, in registration order
GoalReached ==
  /\ exitCode = "none"
  /\ session = "open"
  /\ goal # Null
  /\ \E env \in {NoEnv} :
       Commit(ResumeAll([St EXCEPT !.position = Reached(goal, position),
                                   !.goal = Null,
                                   !.listeners = <<>>],
                        listeners, env))
  /\ UNCHANGED <<session, spawnPending, nextCall, lastLine, exitCode, historyView>>

\* a mutation of MoveTimeout: moveToPosition sets no timer
NoMoveTimer(c) == calls[c].pc = "moving" /\ FALSE /\ UNCHANGED vars

\* MinecraftBot.moveToPosition, lines 231-235: the 30 s timer fires
MoveTimeout(c) ==
  /\ exitCode = "none"
  /\ calls[c].pc = "moving"
  /\ botObj
  /\ \E env \in {NoEnv} :
       Commit(TaskResult(Log([St EXCEPT !.goal = Null], c, [e |-> "timeout"]),
                         c, FALSE, env))
  /\ UNCHANGED <<session, spawnPending, nextCall, lastLine, exitCode, historyView>>

\* MinecraftBot.mineBlock, line 277: the 5 s timer fires
ApproachTimeout(c) ==
  /\ exitCode = "none"
  /\ calls[c].pc = "approaching"
  /\ Commit(DigStart(Log(St, c, [e |-> "timeout"]), c))
  /\ UNCHANGED <<session, spawnPending, nextCall, lastLine, exitCode, historyView>>

\* bot.dig resolves (ok) or rejects
DigSettles(c) ==
  /\ exitCode = "none"
  /\ calls[c].pc = "digging"
  /\ \E ok \in BOOLEAN, env \in {NoEnv} : Commit(DigResult(St, c, ok, env))
  /\ UNCHANGED <<session, spawnPending, nextCall, lastLine, exitCode, historyView>>

\* MinecraftBot.collectItems, line 336: the 10 s timer fires
CollectTimeout(c) ==
  /\ exitCode = "none"
  /\ calls[c].pc = "collecting"
  /\ Commit(CollectGot(Log(St, c, [e |-> "timeout"]), c))
  /\ UNCHANGED <<session, spawnPending, nextCall, lastLine, exitCode, historyView>>

\* MinecraftBot.collectItems, line 347: the timer of wait(1000) fires
CollectPauseElapsed(c) ==
  /\ exitCode = "none"
  /\ calls[c].pc = "collectPause"
  /\ \E env \in {NoEnv} : Commit(CollectLoop(St, c, env))
  /\ UNCHANGED <<session, spawnPending, nextCall, lastLine, exitCode, historyView>>

\* the console line "stop"
EmergencyStop ==
  /\ ConsoleReady
  /\ Commit(emergencyStop(St))
  /\ UNCHANGED <<session, spawnPending, nextCall, lastLine, exitCode, historyView>>

(***************************************************************************)
(* Actions of the connection: MinecraftBot.connect and the handlers of     *)
(* setupEventHandlers.                                                     *)
(***************************************************************************)
Connect ==
  /\ ~botObj
  /\ session = "none"
  /\ botObj' = TRUE
  /\ session' = "open"
  /\ spawnPending' = TRUE
  /\ UNCHANGED <<isExecuting, taskQueue, executionHistory, isConnected, health,
                 position, goal, listeners, calls, nextCall, lastLine, exitCode, historyView>>

Spawn ==
  /\ session = "open"
  /\ spawnPending
  /\ isConnected' = TRUE
  /\ spawnPending' = FALSE
  /\ UNCHANGED <<isExecuting, taskQueue, executionHistory, botObj, session,
                 health, position, goal, listeners, calls, nextCall, lastLine, exitCode, historyView>>

Kicked ==
  /\ session = "open"
  /\ isConnected' = FALSE
  /\ session' = "kicked"
  /\ UNCHANGED <<isExecuting, taskQueue, executionHistory, botObj, spawnPending,
                 health, position, goal, listeners, calls, nextCall, lastLine, exitCode, historyView>>

End ==
  /\ session \in {"open", "kicked"}
  /\ isConnected' = FALSE
  /\ session' = "ended"
  /\ UNCHANGED <<isExecuting, taskQueue, executionHistory, botObj, spawnPending,
                 health, position, goal, listeners, calls, nextCall, lastLine, exitCode, historyView>>

\* the 'error' listener of setupEventHandlers while connect() is pending:
\* reject, the catch of connectToMinecraft rethrows, the catch of
\* initialize ends the process with process.exit(1)
ConnectError ==
  /\ session \in {"open", "kicked"}
  /\ ~isConnected
  /\ spawnPending
  /\ exitCode' = "1"
  /\ session' = "ended"
  /\ UNCHANGED <<isExecuting, taskQueue, executionHistory, botObj, isConnected,
                 spawnPending, health, position, goal, listeners, calls,
                 nextCall, lastLine, historyView>>

Death ==
  /\ session = "open"
  /\ isConnected
  /\ health > 0
  /\ health' = 0
  /\ UNCHANGED <<isExecuting, taskQueue, executionHistory, botObj, isConnected,
                 session, spawnPending, position, goal, listeners,
                 calls, nextCall, lastLine, exitCode, historyView>>

Respawn ==
  /\ session = "open"
  /\ health = 0
  /\ health' = 20
  /\ UNCHANGED <<isExecuting, taskQueue, executionHistory, botObj, isConnected,
                 session, spawnPending, position, goal, listeners,
                 calls, nextCall, lastLine, exitCode, historyView>>

\* what happens to the invocation c after it was made
CallStep(c) ==
  \/ WaitElapsed(c)
  \/ MoveTimeout(c)
  \/ ApproachTimeout(c)
  \/ DigSettles(c)

CollectStep(c) ==
  \/ CollectTimeout(c)
  \/ CollectPauseElapsed(c)

Connection ==
  \/ Connect
  \/ Spawn
  \/ ConnectError
  \/ Kicked
  \/ End

(***************************************************************************)
(* Spec: one command, any answer of the parser, the whole world.           *)
(***************************************************************************)
Next ==
  \/ Call(1, Instructions)
  \/ ParserSettles(1, ParseOutcomes(calls[1].input))
  \/ CallStep(1)
  \/ CollectStep(1)
  \/ GoalReached
  \/ EmergencyStop
  \/ Connection
  \/ Death
  \/ Respawn

Spec == Init /\ [][Next]_vars

\* SpecLive: the promise of parseCommand and of bot.dig settle and the
\* timers fire; nothing makes the pathfinder reach a goal
SpecLive ==
  /\ Init
  /\ [][Next]_vars
  /\ WF_vars(ParserSettles(1, ParseOutcomes(calls[1].input)))
  /\ WF_vars(CallStep(1))
  /\ WF_vars(CollectStep(1))

(***************************************************************************)
(* SpecRace: console lines arrive while a command runs.                    *)
(***************************************************************************)
RacePlans == { <<>>, <<Chat("hi")>>, <<Move(12, 64, 20), Place>> }

\* the console lines of the concurrent calls
RaceInputs == {InstrWalk3, InstrShout}

RaceOutcomes(instruction) ==
  { Returned(createFallbackCommand(instruction)) }
  \cup { Returned(parseCommandOk(instruction, p)) : p \in RacePlans }
  \cup { Returned(Null), Threw }

NextRace ==
  \/ \E c \in CallIds : Call(c, RaceInputs)
  \/ \E c \in CallIds : ParserSettles(c, RaceOutcomes(calls[c].input))
  \/ \E c \in CallIds : WaitElapsed(c)
  \/ \E c \in CallIds : MoveTimeout(c)
  \/ GoalReached
  \/ EmergencyStop
  \/ Connection

SpecRace == Init /\ [][NextRace]_vars

(***************************************************************************)
(* SpecFallback: the language model cannot be reached, parseCommand        *)
(* answers with createFallbackCommand(instruction) for every instruction   *)
(* of at most MaxLen characters.                                           *)
(***************************************************************************)
\* 3 1 0, U+6B69 (step), U+79FB U+52D5 (move), U+8A71 (talk), U+6398 (dig),
\* U+53EB (shout, no keyword)
Alphabet == {"3", "1", "0", "u6B69", "u79FB", "u52D5", "u8A71", "u6398", "u53EB"}

Strings == UNION { [1..n -> Alphabet] : n \in 0..MaxLen }

FallbackInputs == Strings \cup Instructions

FallbackOutcomes(instruction) == { Returned(createFallbackCommand(instruction)) }

NextFallback ==
  \/ Call(1, FallbackInputs)
  \/ ParserSettles(1, FallbackOutcomes(calls[1].input))
  \/ MoveTimeout(1)
  \/ GoalReached
  \/ Connection

SpecFallback == Init /\ [][NextFallback]_vars

(***************************************************************************)
(* SpecParser: one command, parsed by LLMInterface.parseCommand from every *)
(* answer of the language model.                                           *)
(***************************************************************************)
NextParser ==
  \/ Call(1, {InstrWalk3})
  \/ ParserSettles(1, ParserOutcomes(calls[1].input))
  \/ CallStep(1)
  \/ CollectStep(1)
  \/ GoalReached
  \/ Connection

SpecParser == Init /\ [][NextParser]_vars

(***************************************************************************)
(* The console of MinecraftAIAgent and the start of the process.           *)
(***************************************************************************)
\* the characters String.prototype.trim removes, of those the model uses:
\* space, U+0009 (tab), U+3000 (ideographic space)
WhiteSpace == {" ", "u0009", "u3000"}

RECURSIVE trimStart(_)
trimStart(s) ==
  IF s # <<>> /\ Head(s) \in WhiteSpace THEN trimStart(Tail(s)) ELSE s

RECURSIVE trimEnd(_)
trimEnd(s) ==
  IF s # <<>> /\ s[Len(s)] \in WhiteSpace
  THEN trimEnd(SubSeq(s, 1, Len(s) - 1))
  ELSE s

\* String.prototype.trim
trim(s) == trimEnd(trimStart(s))

\* MinecraftBot.disconnect
disconnect(S) ==
  IF S.botObj THEN [S EXCEPT !.isConnected = FALSE, !.botObj = FALSE] ELSE S

\* MinecraftAIAgent.shutdown up to process.exit(0)
shutdown(S) == disconnect(emergencyStop(S))

\* MinecraftAIAgent.handleUserInput: the state after the handler and the
\* case of the switch that ran; the displays read the state and leave it
handleUserInput(S, c, input) ==
  LET command == toLowerCase(input)
  IN  CASE command \in {<<"e", "x", "i", "t">>, <<"q", "u", "i", "t">>} ->
             [st |-> shutdown(S), did |-> "shutdown"]
        [] command = <<"s", "t", "a", "t", "u", "s">> ->
             [st |-> S, did |-> "displayStatus"]
        [] command = <<"h", "e", "l", "p">> ->
             [st |-> S, did |-> "displayHelp"]
        [] command = <<"c", "l", "e", "a", "r">> ->
             [st |-> S, did |-> "clear"]
        [] command = <<"s", "t", "o", "p">> ->
             [st |-> emergencyStop(S), did |-> "emergencyStop"]
        [] command = <<"h", "i", "s", "t", "o", "r", "y">> ->
             [st |-> S, did |-> "displayExecutionHistory"]
        [] OTHER ->
             [st |-> IF c \in CallIds THEN executeCommand(S, c, input) ELSE S,
              did |-> "executeCommand"]

\* the listener of rl.on('line'): readline delivers every line as it comes,
\* whether or not the handler of an earlier line has finished
\* (what displayStatus, displayExecutionHistory and displayHelp print is not
\* kept in the state)
ConsoleLine(lines) ==
  /\ ConsoleReady
  /\ \E input \in lines :
       LET command == trim(input)
           h == IF command = <<>> THEN [st |-> St, did |-> "prompt"]
                ELSE handleUserInput(St, nextCall, command)
       IN  /\ h.did = "executeCommand" => nextCall \in CallIds
           /\ Commit(h.st)
           /\ nextCall' = IF h.did = "executeCommand" THEN nextCall + 1
                          ELSE nextCall
           /\ lastLine' = [text |-> input, did |-> h.did,
                           odd |-> (lastLine = Null \/ ~lastLine.odd)]
           /\ exitCode' = IF h.did = "shutdown" THEN "0" ELSE exitCode
           /\ session' = IF h.did = "shutdown" THEN "ended" ELSE session
  /\ UNCHANGED <<spawnPending, historyView>>

\* the lines typed at the console
ConsoleLines ==
  { <<>>, <<" ", "u3000">>,
    <<"s", "t", "a", "t", "u", "s">>, <<"H", "i", "s", "t", "o", "r", "y">>,
    <<"h", "e", "l", "p">>, <<"c", "l", "e", "a", "r">>,
    <<"E", "X", "I", "T">>, <<"q", "u", "i", "t">>,
    <<" ", "S", "t", "o", "P", "u0009">>,
    <<"s", "t", "o", "p", " ", "i", "t">>, <<" ", "H", "i">>, InstrWalk3 }

NextConsole ==
  \/ ConsoleLine(ConsoleLines)
  \/ \E c \in CallIds : ParserSettles(c, FallbackOutcomes(calls[c].input))
  \/ GoalReached
  \/ Connect
  \/ Spawn

SpecConsole == Init /\ [][NextConsole]_vars

(***************************************************************************)
(* SpecHistory: commands run one after the other or side by side, and the  *)
(* history is read with every limit up to MaxLimit.                        *)
(***************************************************************************)
\* a caller of TaskExecutor.getExecutionHistory
GetExecutionHistory ==
  /\ exitCode = "none"
  /\ \E limit \in 0..MaxLimit :
       historyView' = [limit |-> limit,
                       entries |-> getExecutionHistory(St, limit)]
  /\ UNCHANGED <<isExecuting, taskQueue, executionHistory, botObj, isConnected,
                 session, spawnPending, health, position, goal, listeners,
                 calls, nextCall, lastLine, exitCode>>

HistoryOutcomes(instruction) ==
  { Returned(parseCommandOk(instruction, p)) : p \in {<<>>, <<Chat("hi")>>} }
  \cup { Threw }

NextHistory ==
  \/ \E c \in CallIds : Call(c, RaceInputs)
  \/ \E c \in CallIds : ParserSettles(c, HistoryOutcomes(calls[c].input))
  \/ EmergencyStop
  \/ GetExecutionHistory
  \/ Connect
  \/ Spawn

SpecHistory == Init /\ [][NextHistory]_vars

(***************************************************************************)
(* Reading the activation records.                                         *)
(***************************************************************************)
InFlight(c) == calls[c].pc \notin {"new", "done"}

\* the step makes the invocation c
Invoked(c) == calls[c].pc = "new" /\ calls'[c].pc # "new"

\* the step makes the invocation c return
Returns(c) == calls[c].pc # "done" /\ calls'[c].pc = "done"

RECURSIVE Only(_, _)
Only(tr, kinds) ==
  IF tr = <<>> THEN <<>>
  ELSE IF Head(tr).e \in kinds THEN <<Head(tr)>> \o Only(Tail(tr), kinds)
  ELSE Only(Tail(tr), kinds)

Has(tr, kind) == \E j \in 1..Len(tr) : tr[j].e = kind

RejectedTrace == <<[e |-> "return", value |-> FALSE]>>

(***************************************************************************)
(* C1. At most one executeCommand call is in flight at any time, under any *)
(* interleaving of executeCommand and emergencyStop calls.                 *)
(* The code breaks it: emergencyStop drops the latch while the running     *)
(* call goes on, and the next console line is admitted beside it.          *)
(***************************************************************************)
C1_AtMostOneInFlight == Cardinality({c \in CallIds : InFlight(c)}) <= 1

(***************************************************************************)
(* C2. executeCommand called while isExecuting is true returns false at    *)
(* once and changes nothing: no game-state query, no parser call, no       *)
(* dispatch, no history entry, nothing queued, isExecuting stays true.     *)
(***************************************************************************)
C2_BusyCallNoEffect ==
  [][\A c \in CallIds :
       (Invoked(c) /\ isExecuting) =>
          /\ calls'[c].pc = "done"
          /\ calls'[c].result = FALSE
          /\ calls'[c].trace = RejectedTrace
          /\ isExecuting'
          /\ \A d \in CallIds \ {c} : calls'[d] = calls[d]
          /\ UNCHANGED <<taskQueue, executionHistory, botObj, isConnected,
                         session, spawnPending, health, position, goal,
                         listeners>>]_vars

C2_Witness ==
  \E c, d \in CallIds :
    /\ calls[c].pc = "done" /\ ~calls[c].admitted
    /\ InFlight(d) /\ isExecuting

(***************************************************************************)
(* C3. Every admitted executeCommand call leaves isExecuting false at the  *)
(* moment it returns, on every exit path.                                  *)
(***************************************************************************)
C3_LatchReleasedOnReturn ==
  [][\A c \in CallIds :
       (Returns(c) /\ calls'[c].admitted) => ~isExecuting']_vars

\* a call that left through the catch block, the latch released
C3_Witness ==
  \E c \in CallIds :
    /\ calls[c].pc = "done" /\ calls[c].admitted
    /\ Has(calls[c].trace, "catch")
    /\ ~isExecuting

(***************************************************************************)
(* C4. For a plan of n >= 1 actions executeCommand dispatches exactly the  *)
(* n actions, in plan order, each after the previous one completed, with   *)
(* one wait of 1000 ms between consecutive dispatches and none after the   *)
(* last.                                                                   *)
(***************************************************************************)
\* dispatch, completion and wait events as <<kind, index or ms, task>>
Shape(ev) ==
  IF ev.e = "executeTask" THEN <<"executeTask", ev.index, ev.task>>
  ELSE IF ev.e = "taskResult" THEN <<"taskResult", ev.index, Null>>
  ELSE <<"wait", ev.ms, Null>>

DispatchShape(c) ==
  LET tr == Only(calls[c].trace, {"executeTask", "taskResult", "wait"})
  IN  [j \in 1..Len(tr) |-> Shape(tr[j])]

RECURSIVE ExpectedFrom(_, _)
ExpectedFrom(plan, k) ==
  IF k > Len(plan) THEN <<>>
  ELSE <<<<"executeTask", k - 1, plan[k]>>, <<"taskResult", k - 1, Null>>>>
       \o (IF k < Len(plan) THEN <<<<"wait", 1000, Null>>>> ELSE <<>>)
       \o ExpectedFrom(plan, k + 1)

IsPrefix(s, t) == Len(s) <= Len(t) /\ s = SubSeq(t, 1, Len(s))

\* the action list the parser answered with, <<>> if it answered none
Answered(c) ==
  LET p == calls[c].parsed
  IN  IF p = Null \/ p.threw THEN <<>>
      ELSE IF p.value = Null \/ "actions" \notin DOMAIN p.value THEN <<>>
      ELSE p.value.actions

C4_DispatchInOrder ==
  \A c \in CallIds :
    /\ IsPrefix(DispatchShape(c), ExpectedFrom(Answered(c), 1))
    /\ calls[c].pc = "done" => DispatchShape(c) = ExpectedFrom(Answered(c), 1)

C4_Witness ==
  \E c \in CallIds :
    /\ calls[c].pc = "done"
    /\ Len(Answered(c)) = 3
    /\ Len(DispatchShape(c)) = 8

(***************************************************************************)
(* C5. For a plan of n >= 1 actions executeCommand returns true if and     *)
(* only if at least one action succeeded, also when fewer than n did.      *)
(***************************************************************************)
Succeeded(c) ==
  Cardinality({j \in 1..Len(calls[c].trace) :
                 /\ calls[c].trace[j].e = "taskResult"
                 /\ calls[c].trace[j].success})

C5_TrueIffSomeSuccess ==
  \A c \in CallIds :
    (calls[c].pc = "done" /\ Len(Answered(c)) >= 1) =>
       (calls[c].result <=> Succeeded(c) > 0)

C5_Witness ==
  \E c \in CallIds :
    /\ calls[c].pc = "done"
    /\ Len(Answered(c)) = 3
    /\ Succeeded(c) = 1
    /\ calls[c].result

(***************************************************************************)
(* C6. An action that fails or throws is counted as failed and does not    *)
(* abort the plan: every later action is still dispatched, and             *)
(* executeCommand never throws to its caller.                              *)
(***************************************************************************)
C6_FailureDoesNotAbort ==
  \A c \in CallIds :
    LET tr == calls[c].trace
        n == Len(Answered(c))
    IN  /\ \A j \in 1..Len(tr) :
             tr[j].e = "taskThrew" =>
               /\ j < Len(tr)
               /\ tr[j + 1].e = "taskResult" /\ ~tr[j + 1].success
        /\ \A j \in 1..Len(tr) :
             (tr[j].e = "taskResult" /\ ~tr[j].success /\ tr[j].index + 1 < n) =>
               /\ calls[c].pc # "done"
                    => \/ calls[c].pc = "waiting" /\ calls[c].i = tr[j].index
                       \/ calls[c].i > tr[j].index
               /\ calls[c].pc = "done"
                    => \E m \in (j + 1)..Len(tr) :
                         tr[m].e = "executeTask" /\ tr[m].index = tr[j].index + 1
        /\ (calls[c].pc = "done" /\ n >= 1) =>
             /\ tr[Len(tr)].e = "return"
             /\ ~Has(tr, "catch")
             /\ Succeeded(c) = calls[c].successCount

\* the first action threw, the second one was dispatched and succeeded
C6_Witness ==
  \E c \in CallIds :
    /\ calls[c].pc = "done"
    /\ Has(calls[c].trace, "taskThrew")
    /\ Has(calls[c].trace, "sendChat")
    /\ Succeeded(c) = 1
    /\ calls[c].result

(***************************************************************************)
(* C7. If the WorldAgent yields no game state (agent not connected, also   *)
(* after a kick or the end of the connection), executeCommand returns      *)
(* false without calling the parser or dispatching an action, and releases *)
(* the latch.                                                              *)
(***************************************************************************)
C7_NoStateNoParse ==
  [][\A c \in CallIds :
       (Invoked(c) /\ ~isExecuting /\ (~botObj \/ ~isConnected)) =>
          /\ calls'[c].pc = "done"
          /\ calls'[c].result = FALSE
          /\ ~Has(calls'[c].trace, "parseCommand")
          /\ ~Has(calls'[c].trace, "executeTask")
          /\ ~isExecuting']_vars

C7_Witness ==
  \E c \in CallIds :
    /\ calls[c].pc = "done" /\ calls[c].admitted
    /\ session \in {"kicked", "ended"}
    /\ ~Has(calls[c].trace, "parseCommand")
    /\ ~isExecuting

(***************************************************************************)
(* C8. If the parser returns null, a result without an actions list, or an *)
(* empty actions list, executeCommand returns false, dispatches no action  *)
(* and appends no history entry.                                           *)
(***************************************************************************)
EmptyAnswer(c) ==
  LET p == calls[c].parsed
  IN  /\ p # Null
      /\ ~p.threw
      /\ \/ p.value = Null
         \/ "actions" \notin DOMAIN p.value
         \/ p.value.actions = <<>>

C8_EmptyPlanReturnsFalse ==
  /\ \A c \in CallIds :
       EmptyAnswer(c) =>
         /\ calls[c].pc = "done"
         /\ calls[c].result = FALSE
         /\ ~Has(calls[c].trace, "executeTask")
         /\ ~Has(calls[c].trace, "historyPush")
  /\ Len(executionHistory) =
       Cardinality({c \in CallIds : Has(calls[c].trace, "historyPush")})

C8_Witness ==
  \E c \in CallIds :
    /\ calls[c].pc = "done"
    /\ EmptyAnswer(c)
    /\ calls[c].parsed.value # Null
    /\ "actions" \in DOMAIN calls[c].parsed.value
    /\ executionHistory = <<>>

(***************************************************************************)
(* Keywords and numbers, as the claims state them.                         *)
(***************************************************************************)
Contains(s, w) ==
  \E a \in 1..Len(s) : \E b \in a..Len(s) : SubSeq(s, a, b) = w

MovementWord(s) ==
  \/ Contains(s, <<"u6B69">>)
  \/ Contains(s, <<"u9032">>)
  \/ Contains(s, <<"u79FB", "u52D5">>)

ChatWord(s) ==
  \/ Contains(s, <<"u30C1", "u30E3", "u30C3", "u30C8">>)
  \/ Contains(s, <<"u8A71">>)
  \/ Contains(s, <<"u8A00">>)

MiningWord(s) ==
  \/ Contains(s, <<"u6398">>)
  \/ \E a \in 1..Len(s) - 3 :
       /\ s[a] \in {"m", "M"} /\ s[a + 1] \in {"i", "I"}
       /\ s[a + 2] \in {"n", "N"} /\ s[a + 3] \in {"e", "E"}

DecimalDigit == {"0", "1", "2", "3", "4", "5", "6", "7", "8", "9"}

ValueOf(ch) ==
  CASE ch = "0" -> 0 [] ch = "1" -> 1 [] ch = "2" -> 2 [] ch = "3" -> 3
    [] ch = "4" -> 4 [] ch = "5" -> 5 [] ch = "6" -> 6 [] ch = "7" -> 7
    [] ch = "8" -> 8 [] ch = "9" -> 9

RECURSIVE Decimal(_, _, _)
Decimal(s, a, b) ==
  IF a > b THEN 0 ELSE 10 ^ (b - a) * ValueOf(s[a]) + Decimal(s, a + 1, b)

\* the first integer written in s, 1 if s has no digit
FirstInteger(s) ==
  IF \A k \in 1..Len(s) : s[k] \notin DecimalDigit THEN 1
  ELSE LET a == CHOOSE k \in 1..Len(s) :
                  /\ s[k] \in DecimalDigit
                  /\ \A m \in 1..(k - 1) : s[m] \notin DecimalDigit
           b == CHOOSE k \in a..Len(s) :
                  /\ \A m \in a..k : s[m] \in DecimalDigit
                  /\ (k = Len(s) \/ s[k + 1] \notin DecimalDigit)
       IN  Decimal(s, a, b)

\* parseCommand answered with the fallback plan
FromFallback(c) ==
  /\ calls[c].parsed # Null
  /\ ~calls[c].parsed.threw
  /\ calls[c].parsed.value # Null
  /\ "fallback" \in DOMAIN calls[c].parsed.value

OneDispatch(c, task) ==
  DispatchShape(c) = <<<<"executeTask", 0, task>>, <<"taskResult", 0, Null>>>>

(***************************************************************************)
(* C9, as stated. When the call of the language model fails and the        *)
(* instruction has no movement, chat or mining keyword, the plan has zero  *)
(* actions and executeCommand returns false without dispatching anything.  *)
(***************************************************************************)
C9_NoKeywordNoAction ==
  \A c \in CallIds :
    (/\ FromFallback(c)
     /\ ~MovementWord(calls[c].input)
     /\ ~ChatWord(calls[c].input)
     /\ ~MiningWord(calls[c].input)) =>
       /\ calls[c].parsed.value.actions = <<>>
       /\ ~Has(calls[c].trace, "executeTask")
       /\ calls[c].pc = "done" => ~calls[c].result

(***************************************************************************)
(* C9, amended. When the call of the language model fails and the          *)
(* instruction has no movement, chat or mining keyword, the plan is marked *)
(* success: false and has exactly one action, a chat with the apology      *)
(* message; executeCommand dispatches that one action and returns true if  *)
(* and only if the message was sent.                                       *)
(***************************************************************************)
ApologyChat ==
  [action |-> "chat",
   params |-> [message |-> "sumimasen, shiji wo rikai dekimasen deshita"]]

C9_NoKeywordApology ==
  \A c \in CallIds :
    (/\ FromFallback(c)
     /\ ~MovementWord(calls[c].input)
     /\ ~ChatWord(calls[c].input)
     /\ ~MiningWord(calls[c].input)) =>
       /\ calls[c].parsed.value.actions = <<ApologyChat>>
       /\ ~calls[c].parsed.value.success
       /\ calls[c].pc = "done" =>
            /\ OneDispatch(c, ApologyChat)
            /\ calls[c].result <=> Has(calls[c].trace, "sendChat")

C9_Witness ==
  \E c \in CallIds :
    /\ calls[c].pc = "done"
    /\ FromFallback(c)
    /\ calls[c].input = InstrShout
    /\ Has(calls[c].trace, "sendChat")
    /\ calls[c].result

(***************************************************************************)
(* C10. When the call of the language model fails and the instruction has  *)
(* a movement keyword, the plan is exactly one moveRelative action         *)
(* {x: d, y: 0, z: 0}, d the first integer of the instruction or 1 if it   *)
(* has none; executeCommand attempts exactly that action and returns the   *)
(* result of the move.                                                     *)
(***************************************************************************)
C10_MovementFallback ==
  \A c \in CallIds :
    (FromFallback(c) /\ MovementWord(calls[c].input)) =>
       LET d == FirstInteger(calls[c].input)
           step == [action |-> "moveRelative",
                    params |-> [x |-> d, y |-> 0, z |-> 0]]
       IN  /\ calls[c].parsed.value.actions = <<step>>
           /\ calls[c].pc = "done" =>
                /\ OneDispatch(c, step)
                /\ calls[c].result <=> Has(calls[c].trace, "goal_reached")

C10_Witness ==
  \E c \in CallIds :
    /\ calls[c].pc = "done"
    /\ FromFallback(c)
    /\ calls[c].input = InstrWalk3
    /\ calls[c].plan = <<MoveRelative(3, 0, 0)>>
    /\ Has(calls[c].trace, "goal_reached")
    /\ calls[c].result

(***************************************************************************)
(* C11. createFallbackCommand, for every input string, the empty string    *)
(* and strings without any keyword included, returns an object that has an *)
(* actions list (possibly empty) and a reasoning string.                   *)
(***************************************************************************)
\* v is a list: a JavaScript array, or the characters of a string
IsList(v) == DOMAIN v = 1..Len(v)

PlanObject(r) ==
  /\ r # Null
  /\ "actions" \in DOMAIN r
  /\ IsList(r.actions)
  /\ \A j \in 1..Len(r.actions) : "action" \in DOMAIN r.actions[j]
  /\ "reasoning" \in DOMAIN r
  /\ IsList(r.reasoning)

C11_FallbackAlwaysPlan ==
  \A c \in CallIds :
    calls[c].pc # "new" =>
      /\ PlanObject(createFallbackCommand(calls[c].input))
      /\ calls[c].parsed # Null =>
           /\ ~calls[c].parsed.threw
           /\ calls[c].parsed.value = createFallbackCommand(calls[c].input)

\* the empty instruction went through the fallback parser
C11_Witness ==
  \E c \in CallIds :
    /\ calls[c].input = <<>>
    /\ FromFallback(c)
    /\ PlanObject(calls[c].parsed.value)
    /\ Len(calls[c].parsed.value.actions) = 1

(***************************************************************************)
(* C12. Whenever the call of the language model throws or no JSON can be   *)
(* parsed out of its response, parseCommand resolves without throwing and  *)
(* its result is exactly createFallbackCommand(instruction), marked        *)
(* fallback: true; the failure never reaches executeCommand as an          *)
(* exception.                                                              *)
(***************************************************************************)
\* the language model failed: the call threw, or neither the text nor the
\* {...} in it is JSON
LLMFailed(response) ==
  \/ response.kind = "error"
  \/ /\ response.kind = "text"
     /\ ~response.whole
     /\ ~(response.braces /\ response.inner)

C12_FailureGivesFallback ==
  \A c \in CallIds :
    (calls[c].parsed # Null /\ LLMFailed(calls[c].parsed.llm)) =>
       /\ ~calls[c].parsed.threw
       /\ calls[c].parsed.value = createFallbackCommand(calls[c].input)
       /\ calls[c].parsed.value.fallback
       /\ ~Has(calls[c].trace, "catch")

\* the text of the answer held no JSON; the fallback plan ran to its end
C12_Witness ==
  \E c \in CallIds :
    /\ calls[c].pc = "done"
    /\ calls[c].parsed # Null
    /\ calls[c].parsed.llm = NoJson
    /\ FromFallback(c)
    /\ Has(calls[c].trace, "historyPush")

(***************************************************************************)
(* C13. A moveRelative action with numeric delta (dx, dy, dz) calls moveTo *)
(* with (px+dx, py+dy, pz+dz), p the position of the agent at the moment   *)
(* the action is dispatched; the second of two consecutive relative moves  *)
(* is resolved against the position reached after the first, not against   *)
(* the state snapshot taken before parsing.  Positions are in half blocks. *)
(***************************************************************************)
C13_RelativeFromCurrent ==
  [][\A c \in CallIds :
       LET new == calls'[c].trace
       IN  \A j \in (Len(calls[c].trace) + 1)..Len(new) :
             (/\ new[j].e = "executeTask"
              /\ new[j].task.action = "moveRelative"
              /\ botObj /\ isConnected /\ health > 0) =>
                /\ j < Len(new)
                /\ new[j + 1].e = "moveToPosition"
                /\ new[j + 1].x = position.x + 2 * new[j].task.params.x
                /\ new[j + 1].y = position.y + 2 * new[j].task.params.y
                /\ new[j + 1].z = position.z + 2 * new[j].task.params.z]_vars

\* forward 3 from (10.5, 64, 20.5) went to (13.5, 64, 20.5); up 2 then went
\* to (13.5, 66, 20.5), where the snapshot would give (10, 66, 20)
C13_Witness ==
  \E c \in CallIds :
    LET moves == Only(calls[c].trace, {"moveToPosition"})
    IN  /\ calls[c].plan = <<MoveRelative(3, 0, 0), MoveRelative(0, 2, 0)>>
        /\ Len(moves) = 2
        /\ <<moves[1].x, moves[1].y, moves[1].z>> = <<27, 128, 41>>
        /\ <<moves[2].x, moves[2].y, moves[2].z>> = <<27, 132, 41>>

(***************************************************************************)
(* C14. emergencyStop is idempotent and safe when idle: called once or     *)
(* twice in a row from any state (idle or executing, bot connected, not    *)
(* yet connected or disconnected) it ends with isExecuting false, an empty *)
(* taskQueue and no pending pathfinder goal, the same end state for one    *)
(* call as for two.                                                        *)
(***************************************************************************)
Stopped(S) == ~S.isExecuting /\ S.taskQueue = <<>> /\ S.goal = Null

C14_StopIdempotent ==
  /\ [](LET once == emergencyStop(St)
            twice == emergencyStop(once)
        IN  Stopped(once) /\ Stopped(twice) /\ twice = once)
  /\ [][EmergencyStop =>
          /\ ~isExecuting' /\ taskQueue' = <<>> /\ goal' = Null
          /\ calls' = calls]_vars

\* the stop came while a move was pending: the goal is gone, the latch is
\* down, the move still waits
C14_Witness ==
  \E c \in CallIds :
    /\ calls[c].pc = "moving"
    /\ ~isExecuting
    /\ goal = Null

(***************************************************************************)
(* C15. moveTo resolves true only if the goal that this call itself set    *)
(* was reached before its 30 s timeout, under any interleaving with        *)
(* emergencyStop and with later movement calls: a goal_reached event       *)
(* raised for another call's goal never makes an earlier, cancelled or     *)
(* still-pending move resolve true.                                        *)
(* The code breaks it: every listener registered with once('goal_reached') *)
(* runs on the next event, whichever goal was reached.                     *)
(***************************************************************************)
\* the step resolves the pending move of c with true
MoveResolvesTrue(c) ==
  /\ calls[c].pc = "moving"
  /\ \E j \in (Len(calls[c].trace) + 1)..Len(calls'[c].trace) :
       calls'[c].trace[j].e = "goal_reached"

\* the arguments of the pending moveToPosition of c
PendingMove(c) ==
  LET moves == Only(calls[c].trace, {"moveToPosition"})
  IN  moves[Len(moves)]

C15_OwnGoalOnly ==
  [][\A c \in CallIds :
       MoveResolvesTrue(c) =>
         /\ goal # Null
         /\ goal = GoalBlock(PendingMove(c).x, PendingMove(c).y,
                             PendingMove(c).z, c)]_vars

(***************************************************************************)
(* C16. Whenever the bounded wait of an action expires (move: 30 s,        *)
(* approach to a block to mine: 5 s, approach to an item to collect: 10 s) *)
(* the pending pathfinder goal is cleared and the action is recorded as    *)
(* failed, and executeCommand continues with the next action.              *)
(* The code breaks it for the two approaches: their timers only resolve    *)
(* the wait, after which the block is dug or the item counted.             *)
(***************************************************************************)
\* the events the step appends to the trace of c
NewEvents(c) ==
  SubSeq(calls'[c].trace, Len(calls[c].trace) + 1, Len(calls'[c].trace))

\* the bounded wait of the running action of c expires in the step
WaitExpires(c) == Has(NewEvents(c), "timeout")

C16_TimeoutAbandons ==
  [][\A c \in CallIds :
       WaitExpires(c) =>
         /\ goal' = Null
         /\ \E j \in 1..Len(NewEvents(c)) :
              /\ NewEvents(c)[j].e = "taskResult"
              /\ NewEvents(c)[j].index = calls[c].i
              /\ ~NewEvents(c)[j].success
         /\ \/ calls'[c].pc = "waiting"
            \/ calls'[c].pc = "done"]_vars

(***************************************************************************)
(* C17. Place and Craft actions always fail and call no capability of the  *)
(* WorldAgent that acts on the world (moveTo, breakBlock, gatherItem,      *)
(* sendChat), whatever their parameters; a plan made only of Place and     *)
(* Craft actions makes executeCommand return false.                        *)
(***************************************************************************)
Unimplemented == {"place", "craft"}

C17_PlaceCraftFail ==
  \A c \in CallIds :
    LET tr == calls[c].trace
        plan == Answered(c)
    IN  /\ \A j \in 1..Len(tr) :
             (tr[j].e = "executeTask" /\ tr[j].task.action \in Unimplemented) =>
                /\ j < Len(tr)
                /\ tr[j + 1].e = "taskResult"
                /\ tr[j + 1].index = tr[j].index
                /\ ~tr[j + 1].success
        /\ (/\ calls[c].pc = "done"
            /\ plan # <<>>
            /\ \A k \in 1..Len(plan) : plan[k].action \in Unimplemented) =>
               ~calls[c].result

\* the plan <<place, craft>> ran to its end: two dispatches, no success
C17_Witness ==
  \E c \in CallIds :
    /\ calls[c].pc = "done"
    /\ Len(calls[c].plan) = 2
    /\ calls[c].plan[1].action = "place"
    /\ calls[c].plan[2].action = "craft"
    /\ Len(Only(calls[c].trace, {"taskResult"})) = 2
    /\ Has(calls[c].trace, "historyPush")
    /\ ~calls[c].result

(***************************************************************************)
(* C18. A Collect action whose amount is <= 0 is executed as if its amount *)
(* were 1, both when the amount comes from the task details of the         *)
(* parser's answer and when it is given directly in the parameters of the  *)
(* action.                                                                 *)
(* The code breaks it: only an amount of 0 in the task details becomes 1.  *)
(***************************************************************************)
\* the answer of the language model behind the plan of c, Null if none
AnswerOf(c) ==
  LET p == calls[c].parsed
  IN  IF p = Null \/ "llm" \notin DOMAIN p THEN Null
      ELSE IF p.llm.json = Null \/ "tasks" \notin DOMAIN p.llm.json THEN Null
      ELSE p.llm.json

NonPositiveAmount(r) == "amount" \in DOMAIN r /\ r.amount <= 0

C18_NonPositiveAmountIsOne ==
  \A c \in CallIds :
    LET tr == calls[c].trace
    IN  /\ \A j \in 1..(Len(tr) - 1) :
             (/\ tr[j].e = "executeTask"
              /\ tr[j].task.action = "collect"
              /\ NonPositiveAmount(tr[j].task.params)
              /\ tr[j + 1].e = "collectItems") =>
                tr[j + 1].amount = 1
        /\ AnswerOf(c) # Null =>
             \A k \in 1..Len(AnswerOf(c).tasks) :
               LET task == AnswerOf(c).tasks[k]
               IN  (/\ task.type = "collect"
                    /\ "details" \in DOMAIN task
                    /\ NonPositiveAmount(task.details)) =>
                      convertTask(task)[1].params.amount = 1

(***************************************************************************)
(* C19. gatherItem returns the count of items actually collected: the      *)
(* count is incremented for an item only when the agent reached that item, *)
(* never when the approach to it timed out; a Collect action therefore     *)
(* succeeds only if at least one item was really reached.                  *)
(* The code breaks it: the count is incremented after the wait, whichever  *)
(* way the wait ended.                                                     *)
(***************************************************************************)
\* the j-th event of tr counts an item whose approach timed out
CountedAfterTimeout(tr, j) ==
  /\ tr[j].e = "collected"
  /\ j > 1
  /\ tr[j - 1].e = "timeout"

\* the j-th event of tr counts an item the agent reached
CountedReached(tr, j) == tr[j].e = "collected" /\ ~CountedAfterTimeout(tr, j)

C19_CountsReachedOnly ==
  \A c \in CallIds :
    LET tr == calls[c].trace
    IN  /\ \A j \in 1..Len(tr) : ~CountedAfterTimeout(tr, j)
        /\ \A j \in 1..Len(tr) :
             (/\ tr[j].e = "taskResult"
              /\ tr[j].success
              /\ calls[c].plan[tr[j].index + 1].action = "collect") =>
                \E m \in 1..(j - 1) : CountedReached(tr, m)

(***************************************************************************)
(* C20. A Chat action with a non-empty message dispatched while the agent  *)
(* is alive always succeeds and calls sendChat exactly once with that      *)
(* message; no change of the connection state of the agent can occur       *)
(* between the alive check and the call of sendChat: the check, the call   *)
(* and the result are in one step.                                         *)
(***************************************************************************)
C20_ChatWhenAlive ==
  [][\A c \in CallIds :
       \A j \in 1..Len(NewEvents(c)) :
         LET ev == NewEvents(c)[j]
         IN  (/\ ev.e = "executeTask"
              /\ ev.task.action = "chat"
              /\ "params" \in DOMAIN ev.task
              /\ ev.task.params.message # ""
              /\ botObj /\ isConnected /\ health > 0) =>
                /\ j + 2 <= Len(NewEvents(c))
                /\ NewEvents(c)[j + 1] =
                     [e |-> "sendChat", message |-> ev.task.params.message]
                /\ NewEvents(c)[j + 2] =
                     [e |-> "taskResult", index |-> ev.index, success |-> TRUE]
                /\ UNCHANGED <<botObj, isConnected, health, session>>]_vars

\* the chat was the second action of its plan, after one that failed
C20_Witness ==
  \E c \in CallIds :
    /\ calls[c].pc = "done"
    /\ Len(calls[c].plan) = 3
    /\ calls[c].plan[2] = Chat("hi")
    /\ Len(Only(calls[c].trace, {"sendChat"})) = 1
    /\ calls[c].successCount = 1
    /\ calls[c].result

(***************************************************************************)
(* Reading the console.                                                    *)
(***************************************************************************)
\* the text of a line between its first and its last character that is not
\* white space
Trimmed(line) ==
  LET inked == {k \in 1..Len(line) : line[k] \notin WhiteSpace}
  IN  IF inked = {} THEN <<>>
      ELSE SubSeq(line, CHOOSE k \in inked : \A m \in inked : k <= m,
                        CHOOSE k \in inked : \A m \in inked : m <= k)

SameLetter(a, b) ==
  a = b \/ \E k \in 1..26 : {a, b} = {UpperCase[k], LowerCase[k]}

EqualsIgnoringCase(s, w) ==
  Len(s) = Len(w) /\ \A k \in 1..Len(s) : SameLetter(s[k], w[k])

ReservedWords ==
  { <<"s", "t", "a", "t", "u", "s">>, <<"h", "i", "s", "t", "o", "r", "y">>,
    <<"s", "t", "o", "p">>, <<"h", "e", "l", "p">>, <<"c", "l", "e", "a", "r">>,
    <<"e", "x", "i", "t">>, <<"q", "u", "i", "t">> }

IsReserved(t) == \E w \in ReservedWords : EqualsIgnoringCase(t, w)

(***************************************************************************)
(* C21. A console line that, trimmed, equals one of status, history, stop, *)
(* help, clear, exit, quit whatever its case is never passed to            *)
(* executeCommand; every other line that is not empty is passed to         *)
(* executeCommand exactly once, with its trimmed text as typed; a line of  *)
(* white space only runs neither an administrative action nor              *)
(* executeCommand.                                                         *)
(***************************************************************************)
C21_ReservedNeverExecuted ==
  [][lastLine' # lastLine =>
       LET t == Trimmed(lastLine'.text)
       IN  /\ IsReserved(t) =>
                /\ \A c \in CallIds : ~Invoked(c)
                /\ nextCall' = nextCall
                /\ lastLine'.did \notin {"executeCommand", "prompt"}
           /\ t = <<>> =>
                /\ lastLine'.did = "prompt"
                /\ UNCHANGED <<isExecuting, taskQueue, executionHistory, botObj,
                               isConnected, session, spawnPending, health,
                               position, goal, listeners, calls, nextCall,
                               exitCode>>
           /\ (t # <<>> /\ ~IsReserved(t)) =>
                /\ lastLine'.did = "executeCommand"
                /\ nextCall' = nextCall + 1
                /\ \E c \in CallIds :
                     /\ Invoked(c)
                     /\ calls'[c].input = t
                     /\ \A d \in CallIds \ {c} : calls'[d] = calls[d]]_vars

\* "Hi" was passed as typed, then " StoP" followed by a tab stopped the
\* executor
C21_Witness ==
  /\ lastLine # Null
  /\ lastLine.text = <<" ", "S", "t", "o", "P", "u0009">>
  /\ lastLine.did = "emergencyStop"
  /\ \E c \in CallIds : calls[c].pc # "new" /\ calls[c].input = <<"H", "i">>

(***************************************************************************)
(* C22. The console handles one line at a time: a line that arrives while  *)
(* the executeCommand of an earlier line is unresolved is not handled      *)
(* until that call has resolved.                                           *)
(* The code breaks it: the listener of 'line' is an async function, and    *)
(* readline does not wait for the promise it returns; the next line is     *)
(* handled while the earlier call is suspended at an await.                *)
(***************************************************************************)
C22_OneLineAtATime ==
  [][(lastLine' # lastLine /\ lastLine'.did # "prompt") =>
        \A c \in CallIds : ~InFlight(c)]_vars

(***************************************************************************)
(* C23. A connection error during startup is fatal: when the connection    *)
(* is refused, kicked or ended before the first spawn, connect() fails and *)
(* the process exits with an error; startup never waits forever and never  *)
(* goes on to accept commands.                                             *)
(* The code breaks it: only the 'error' listener rejects the promise of    *)
(* connect(); 'kicked' and 'end' clear isConnected and leave the promise   *)
(* pending, so that once the connection has ended without an 'error'       *)
(* nothing is left that could settle it.                                   *)
(***************************************************************************)
C23_StartupErrorFatal ==
  /\ (spawnPending /\ session = "ended") => exitCode = "1"
  /\ spawnPending => \A c \in CallIds : calls[c].pc = "new"

\* executeTask of the invocation c has been entered and has not returned
Dispatching(c) ==
  calls[c].pc \in {"moving", "approaching", "digging", "collecting", "collectPause"}

(***************************************************************************)
(* C24. Under any interleaving of console lines, commands and stop, no two *)
(* executeTask dispatches are in progress at the same time.                *)
(* The code breaks it: 'stop' releases the latch while the dispatch of the *)
(* running command is still awaited, and the next command dispatches       *)
(* beside it.                                                              *)
(***************************************************************************)
C24_OneDispatchAtATime ==
  Cardinality({c \in CallIds : Dispatching(c)}) <= 1

\* the operations of executeCommand the order is about, and their rank
Ordered == {"getGameState", "parseCommand", "executeTask", "historyPush", "return"}

Rank(e) ==
  CASE e = "getGameState" -> 1
    [] e = "parseCommand" -> 2
    [] e = "executeTask" -> 3
    [] e = "historyPush" -> 4
    [] e = "return" -> 5

\* what a query of the game state gives in the current state
QueriedNow ==
  [position |-> [x |-> position.x \div 2, y |-> position.y \div 2,
                 z |-> position.z \div 2],
   health |-> health]

(***************************************************************************)
(* C25. Within one executeCommand call the operations come in a fixed      *)
(* order: game-state query, parser call, action dispatches, history        *)
(* append, return. No action is dispatched before the parser call has      *)
(* resolved, and the state passed to the parser is the one queried in the  *)
(* same call.                                                              *)
(***************************************************************************)
C25_FixedOrder ==
  [][\A c \in CallIds :
       calls'[c].trace # calls[c].trace =>
       LET tr == Only(calls'[c].trace, Ordered)
       IN  /\ \A j, k \in 1..Len(tr) :
                j < k => /\ Rank(tr[j].e) <= Rank(tr[k].e)
                         /\ Rank(tr[j].e) = Rank(tr[k].e) => tr[j].e = "executeTask"
           /\ Has(tr, "parseCommand") =>
                /\ tr[1].e = "getGameState"
                /\ tr[2].e = "parseCommand"
                /\ tr[2].state = tr[1].state
           /\ (Has(tr, "executeTask") \/ Has(tr, "historyPush")) =>
                Has(tr, "parseCommand")
           /\ calls'[c].pc = "parsing" => Len(calls'[c].trace) = 2
           /\ (Invoked(c) /\ Has(tr, "getGameState") /\ isConnected /\ botObj) =>
                tr[1].state = QueriedNow]_vars

\* a call that went through every operation, with two dispatches
C25_Witness ==
  \E c \in CallIds :
    LET tr == Only(calls[c].trace, Ordered)
    IN  /\ calls[c].pc = "done"
        /\ Len(tr) = 6
        /\ tr[3].e = "executeTask" /\ tr[4].e = "executeTask"
        /\ tr[5].e = "historyPush" /\ tr[6].e = "return"

\* the parameters of the action are invalid: a coordinate of a move that is
\* not a number, a mine without block type, a chat without message
InvalidParams(task) ==
  /\ "params" \in DOMAIN task
  /\ CASE task.action \in {"move", "moveRelative"} ->
            \E f \in {"x", "y", "z"} : f \notin DOMAIN task.params
       [] task.action = "mine" -> task.params.blockType = ""
       [] task.action = "chat" -> task.params.message = ""
       [] OTHER -> FALSE

\* the calls executeTask makes on the bot for an action
Capabilities == {"moveToPosition", "mineBlock", "collectItems", "sendChat"}

(***************************************************************************)
(* C26. An action with invalid parameters fails without calling any        *)
(* capability of the bot and without an exception; the actions after it    *)
(* are still dispatched.                                                   *)
(***************************************************************************)
C26_InvalidParamsFail ==
  \A c \in CallIds :
    LET tr == calls[c].trace
    IN  \A j \in 1..Len(tr) :
          (tr[j].e = "executeTask" /\ InvalidParams(tr[j].task)) =>
             /\ j < Len(tr)
             /\ tr[j + 1] = [e |-> "taskResult", index |-> tr[j].index,
                             success |-> FALSE]
             /\ (calls[c].pc = "done" /\ tr[j].index + 1 < Len(calls[c].plan)) =>
                   \E k \in (j + 1)..Len(tr) :
                     /\ tr[k].e = "executeTask"
                     /\ tr[k].index = tr[j].index + 1

\* the four invalid actions failed and the chat after them was sent
C26_Witness ==
  \E c \in CallIds :
    /\ calls[c].pc = "done"
    /\ calls[c].plan = InvalidPlan
    /\ calls[c].successCount = 1
    /\ Len(Only(calls[c].trace, Capabilities)) = 1
    /\ Len(Only(calls[c].trace, {"executeTask"})) = 5

(***************************************************************************)
(* Reading the conversion of the answer of the language model.             *)
(***************************************************************************)
\* the call c was parsed from an answer with a task list, without fallback
Converted(c) ==
  /\ AnswerOf(c) # Null
  /\ ~calls[c].parsed.threw
  /\ calls[c].parsed.value # Null
  /\ "fallback" \notin DOMAIN calls[c].parsed.value

KnownTypes == {"move", "dig", "mine", "collect", "place", "craft", "chat"}

IsKnown(task) == task.type \in KnownTypes

\* the action a task of a known type is converted to carries the target of the task
Matches(task, a) ==
  CASE task.type = "move" -> a.action \in {"move", "moveRelative"}
    [] task.type \in {"dig", "mine"} ->
         a.action = "mine" /\ a.params.blockType = task.target.text
    [] task.type = "collect" ->
         a.action = "collect" /\ a.params.itemType = task.target.text
    [] task.type = "place" ->
         a.action = "place" /\ a.params.blockType = task.target.text
    [] task.type = "craft" ->
         a.action = "craft" /\ a.params.item = task.target.text
    [] task.type = "chat" ->
         a.action = "chat" /\ a.params.message = task.target.text

(***************************************************************************)
(* C27. convertTasksToActions drops every task whose type is not one of    *)
(* move, dig, mine, collect, place, craft, chat and maps every other task  *)
(* to exactly one action, in the order of the tasks; a task of unknown     *)
(* type raises no error and removes no valid task.                         *)
(***************************************************************************)
C27_UnknownTypesDropped ==
  \A c \in CallIds :
    (calls[c].parsed # Null /\ AnswerOf(c) # Null) =>
       LET known == SelectSeq(AnswerOf(c).tasks, IsKnown)
           actions == calls[c].parsed.value.actions
       IN  /\ Converted(c)
           /\ Len(actions) = Len(known)
           /\ \A k \in 1..Len(known) : Matches(known[k], actions[k])

\* three tasks of unknown type around a chat, a dig and a place
C27_Witness ==
  \E c \in CallIds :
    /\ Converted(c)
    /\ Len(AnswerOf(c).tasks) = 6
    /\ Len(SelectSeq(AnswerOf(c).tasks, IsKnown)) = 3
    /\ Len(calls[c].parsed.value.actions) = 3
    /\ calls[c].pc = "done"

\* the keywords of a direction and the unit vector they stand for
DirectionTable ==
  { [words |-> {DirForward, <<"u524D">>, DirMassugu}, axis |-> "x", sign |-> 1],
    [words |-> {DirBack, <<"u5F8C">>}, axis |-> "x", sign |-> -1],
    [words |-> {DirRight, <<"u53F3">>}, axis |-> "z", sign |-> 1],
    [words |-> {DirLeft, <<"u5DE6">>}, axis |-> "z", sign |-> -1],
    [words |-> {DirUp, <<"u4E0A">>}, axis |-> "y", sign |-> 1],
    [words |-> {DirDown, <<"u4E0B">>}, axis |-> "y", sign |-> -1] }

\* the word w occurs in the text d, whatever the case
Mentions(d, w) ==
  \E k \in 1..(Len(d) - Len(w) + 1) :
    EqualsIgnoringCase(SubSeq(d, k, k + Len(w) - 1), w)

Along(axis, n) ==
  [x |-> IF axis = "x" THEN n ELSE 0,
   y |-> IF axis = "y" THEN n ELSE 0,
   z |-> IF axis = "z" THEN n ELSE 0]

\* a move task with a direction and a positive distance, without coordinates
Directed(task) ==
  /\ task.type = "move"
  /\ "x" \notin DOMAIN task.target
  /\ "details" \in DOMAIN task
  /\ "direction" \in DOMAIN task.details
  /\ task.details.direction # <<>>
  /\ "distance" \in DOMAIN task.details
  /\ task.details.distance > 0

(***************************************************************************)
(* C28. parseDirection maps a direction text, by substring match whatever  *)
(* the case, to a vector with exactly one non-zero component of magnitude  *)
(* distance: forward, U+524D, massugu to +x, back, U+5F8C to -x, right,    *)
(* U+53F3 to +z, left, U+5DE6 to -z, up, U+4E0A to +y, down, U+4E0B to -y; *)
(* a text with none of the keywords maps to forward (+x). For a text with  *)
(* keywords of several directions the vector is the one of a direction it  *)
(* names.                                                                  *)
(***************************************************************************)
C28_DirectionVector ==
  \A c \in CallIds :
    (/\ calls[c].parsed # Null
     /\ AnswerOf(c) # Null
     /\ Len(AnswerOf(c).tasks) = 1
     /\ Directed(AnswerOf(c).tasks[1])) =>
       LET task == AnswerOf(c).tasks[1]
           d == task.details.direction
           n == task.details.distance
           named == {r \in DirectionTable : \E w \in r.words : Mentions(d, w)}
           actions == calls[c].parsed.value.actions
       IN  /\ Converted(c)
           /\ Len(actions) = 1
           /\ actions[1].action = "moveRelative"
           /\ actions[1].params \in
                (IF named = {} THEN {Along("x", n)}
                 ELSE {Along(r.axis, r.sign * n) : r \in named})

\* "LEFT", distance 3: the bot was sent three blocks along -z
C28_Witness ==
  \E c \in CallIds :
    /\ Converted(c)
    /\ AnswerOf(c).tasks = <<TaskMoveDir(<<"L", "E", "F", "T">>, 3)>>
    /\ calls[c].plan = <<MoveRelative(0, 0, -3)>>
    /\ Has(calls[c].trace, "moveToPosition")

\* a move task without coordinates and without direction
Undirected(task) ==
  /\ task.type = "move"
  /\ "x" \notin DOMAIN task.target
  /\ ("details" \in DOMAIN task => "direction" \notin DOMAIN task.details)

\* the same task with the direction "forward"
WithForward(task) ==
  [type |-> task.type, target |-> task.target,
   details |-> IF "details" \in DOMAIN task
               THEN [f \in DOMAIN task.details \cup {"direction"} |->
                       IF f = "direction" THEN DirForward ELSE task.details[f]]
               ELSE [direction |-> DirForward]]

(***************************************************************************)
(* C29. A relative move task with no direction is converted as if its      *)
(* direction were "forward": the moveRelative action equals the one of the *)
(* same task with direction "forward" and the same distance.               *)
(* The code breaks it: without a direction the action is the constant      *)
(* (1, 0, 0), whatever the distance of the task.                           *)
(***************************************************************************)
C29_NoDirectionIsForward ==
  \A c \in CallIds :
    (/\ calls[c].parsed # Null
     /\ AnswerOf(c) # Null
     /\ Len(AnswerOf(c).tasks) = 1
     /\ Undirected(AnswerOf(c).tasks[1])) =>
       /\ Converted(c)
       /\ calls[c].parsed.value.actions =
            convertTask(WithForward(AnswerOf(c).tasks[1]))

\* a move task with coordinates
Absolute(task) == task.type = "move" /\ "x" \in DOMAIN task.target

(***************************************************************************)
(* C30. A move task with an absolute target keeps the Y of the target      *)
(* whenever one is given, 0 included, and uses 64 only when Y is missing.  *)
(* The code breaks it: task.target.y || 64 replaces a Y of 0 by 64.        *)
(***************************************************************************)
C30_TargetYKept ==
  \A c \in CallIds :
    (/\ calls[c].parsed # Null
     /\ AnswerOf(c) # Null
     /\ Len(AnswerOf(c).tasks) >= 1
     /\ Absolute(AnswerOf(c).tasks[1])) =>
       LET target == AnswerOf(c).tasks[1].target
           actions == calls[c].parsed.value.actions
       IN  /\ Converted(c)
           /\ Len(actions) >= 1
           /\ actions[1].action = "move"
           /\ actions[1].params.x = target.x
           /\ actions[1].params.z = target.z
           /\ actions[1].params.y =
                (IF "y" \in DOMAIN target THEN target.y ELSE 64)

(***************************************************************************)
(* C31. getExecutionHistory(limit) returns the most recent                 *)
(* min(limit, historyCount) entries in chronological order for every       *)
(* limit >= 0; it never returns more than limit entries and never changes  *)
(* the history.                                                            *)
(* The code breaks it for limit 0: slice(-0) is slice(0), the whole        *)
(* history.                                                                *)
(***************************************************************************)
C31_MostRecentEntries ==
  [][historyView' # historyView =>
       LET limit == historyView'.limit
           got == historyView'.entries
           len == Len(executionHistory)
           k == IF limit < len THEN limit ELSE len
       IN  /\ Len(got) = k
           /\ Len(got) <= limit
           /\ \A j \in 1..k : got[j] = executionHistory[len - k + j]
           /\ executionHistory' = executionHistory]_vars

\* the results of the dispatches of the invocation c, after the step
ResultsAfter(c) == Only(calls'[c].trace, {"taskResult"})

\* the step ends the invocation c after its dispatch loop went through the
\* whole plan
EndsAfterLoop(c) ==
  /\ Returns(c)
  /\ calls'[c].plan # <<>>
  /\ Len(ResultsAfter(c)) = Len(calls'[c].plan)

\* the history entry the invocation c is due
EntryAfter(c) ==
  [input |-> calls'[c].input, tasks |-> calls'[c].plan,
   successCount |->
     Cardinality({j \in 1..Len(ResultsAfter(c)) : ResultsAfter(c)[j].success})]

(***************************************************************************)
(* C32. The execution history is append-only: a call of executeCommand     *)
(* appends exactly one entry, with the number of its actions that          *)
(* succeeded and the dispatched plan, if and only if it ran its dispatch   *)
(* loop to the end; it appends none on busy rejection, missing state,      *)
(* empty plan or exception; entries are never modified, reordered or       *)
(* removed.                                                                *)
(***************************************************************************)
C32_HistoryAppendOnly ==
  [][LET old == Len(executionHistory)
         enders == {c \in CallIds : EndsAfterLoop(c)}
     IN  /\ IsPrefix(executionHistory, executionHistory')
         /\ Len(executionHistory') = old + Cardinality(enders)
         /\ \A j \in (old + 1)..Len(executionHistory') :
              \E c \in enders : executionHistory'[j] = EntryAfter(c)
         /\ \A c \in enders :
              \E j \in (old + 1)..Len(executionHistory') :
                executionHistory'[j] = EntryAfter(c)]_vars

\* two commands were recorded one after the other: one chat sent, one plan
\* without a success
C32_Witness ==
  /\ Len(executionHistory) = 2
  /\ executionHistory[1].successCount = 1
  /\ executionHistory[2].successCount = 0
  /\ \A c \in CallIds : calls[c].pc = "done"

\* the step is an emergencyStop that found the latch set
StopsRunning == isExecuting /\ ~isExecuting' /\ calls' = calls

\* the invocation c is in its dispatch loop
InLoop(c) == InFlight(c) /\ calls[c].pc # "parsing"

(***************************************************************************)
(* C33. emergencyStop called while a command is inside its dispatch loop   *)
(* does not end that command: the loop never reads the latch, every        *)
(* remaining action of the plan is still dispatched, with the waits        *)
(* between the actions, and the history entry is still appended; only the  *)
(* pathfinder goal is cleared.                                             *)
(***************************************************************************)
C33_StopDoesNotEndLoop ==
  [][/\ StopsRunning =>
          /\ goal' = Null
          /\ taskQueue' = <<>>
          /\ UNCHANGED <<executionHistory, listeners, position, health,
                         botObj, isConnected>>
     /\ \A c \in CallIds :
          (InLoop(c) /\ ~isExecuting /\ Returns(c)) =>
             LET tr == calls'[c].trace
                 n == Len(calls'[c].plan)
             IN  /\ Len(Only(tr, {"executeTask"})) = n
                 /\ Len(Only(tr, {"taskResult"})) = n
                 /\ Len(Only(tr, {"wait"})) = n - 1
                 /\ Has(tr, "historyPush")
                 /\ Len(executionHistory') = Len(executionHistory) + 1]_vars

\* the latch was dropped by emergencyStop and the command is still in its
\* loop, waiting for the timer between its second and its third action
C33_Witness ==
  \E c \in CallIds :
    /\ ~isExecuting
    /\ calls[c].pc = "waiting"
    /\ Len(calls[c].plan) = 3
    /\ Len(Only(calls[c].trace, {"executeTask"})) = 2
    /\ executionHistory = <<>>

(***************************************************************************)
(* C34. Every admitted executeCommand call eventually returns and releases *)
(* the latch, provided the parser call and every dig call settle and the   *)
(* timers fire: every wait for goal_reached is bounded by a timer, so a    *)
(* move whose goal is never reached, or was cleared by emergencyStop, ends *)
(* when its timer fires.                                                   *)
(***************************************************************************)
C34_AdmittedCallReturns ==
  (calls[1].admitted /\ InFlight(1)) ~> (calls[1].pc = "done" /\ ~isExecuting)

\* a move that waits for a goal emergencyStop has cleared
C34_Witness ==
  \E c \in CallIds :
    /\ calls[c].admitted
    /\ calls[c].pc = "moving"
    /\ goal = Null
    /\ ~isExecuting

(***************************************************************************)
(* C35. If the agent is not alive (no bot, not connected, or health <= 0)  *)
(* at the moment an action is dispatched, the action fails without any     *)
(* call of moveToPosition, mineBlock, collectItems or sendChat, and the     *)
(* remaining actions of the plan are still attempted one by one, with the  *)
(* waits between the actions.                                              *)
(***************************************************************************)
C35_NotAliveFails ==
  [][\A c \in CallIds :
       LET new == calls'[c].trace
           from == Len(calls[c].trace) + 1
       IN  \A j \in from..Len(new) :
             (new[j].e = "executeTask" /\ ~(botObj /\ isConnected /\ health > 0)) =>
                /\ j < Len(new)
                /\ new[j + 1] = [e |-> "taskResult", index |-> new[j].index,
                                 success |-> FALSE]
                /\ \A k \in from..Len(new) : new[k].e \notin Capabilities
                /\ IF new[j].index + 1 < Len(calls'[c].plan)
                   THEN /\ calls'[c].pc = "waiting"
                        /\ new[Len(new)] = [e |-> "wait", ms |-> 1000]
                   ELSE /\ calls'[c].pc = "done"
                        /\ Has(new, "historyPush")]_vars

\* kicked while the parser was asked: move and mine were both dispatched,
\* one second apart, and neither reached the bot
C35_Witness ==
  \E c \in CallIds :
    /\ calls[c].pc = "done"
    /\ calls[c].plan = <<Move(12, 64, 20), Mine("stone")>>
    /\ Len(Only(calls[c].trace, {"executeTask"})) = 2
    /\ Len(Only(calls[c].trace, {"wait"})) = 1
    /\ Only(calls[c].trace, Capabilities) = <<>>
    /\ ~calls[c].result

(***************************************************************************)
(* C36. A mine action breaks at most one block, whatever its amount:       *)
(* mineBlock takes the blocks whose name equals blockType, tries at most 3 *)
(* of them in turn, returns true as soon as one dig succeeds, and false    *)
(* when no block matches or every dig it tried failed.                     *)
(***************************************************************************)
\* the events of tr after the j-th one, up to the next result of an action
UpToResult(tr, j) ==
  LET ends == {k \in (j + 1)..Len(tr) : tr[k].e = "taskResult"}
  IN  SubSeq(tr, j + 1,
             IF ends = {} THEN Len(tr)
             ELSE CHOOSE k \in ends : \A m \in ends : k <= m)

\* the blocks of that name among those within reach, 3 at most
Candidates(near, blockType) ==
  LET same == Cardinality({k \in 1..Len(near) : near[k] = blockType})
  IN  IF same < 3 THEN same ELSE 3

C36_MineBreaksOne ==
  \A c \in CallIds :
    LET tr == calls[c].trace
    IN  \A j \in 1..Len(tr) :
          tr[j].e = "mineBlock" =>
            LET seg == UpToResult(tr, j)
                digs == Len(Only(seg, {"dig"}))
                dugs == Len(Only(seg, {"dug"}))
                over == seg # <<>> /\ seg[Len(seg)].e = "taskResult"
            IN  /\ dugs <= 1
                /\ digs <= Candidates(tr[j].near, tr[j].blockType)
                /\ \A k \in 1..Len(seg) :
                     seg[k].e = "dug" =>
                       /\ k + 1 = Len(seg)
                       /\ seg[k + 1].e = "taskResult"
                       /\ seg[k + 1].success
                /\ over => /\ seg[Len(seg)].success <=> dugs = 1
                           /\ ~seg[Len(seg)].success =>
                                digs = Candidates(tr[j].near, tr[j].blockType)

\* a mine action with amount 3 and four blocks of stone within reach: two
\* digs failed, the third broke a block, and the action was over
C36_Witness ==
  \E c \in CallIds :
    LET tr == calls[c].trace
    IN  /\ calls[c].pc = "done"
        /\ Len(calls[c].plan) = 1
        /\ calls[c].plan[1].action = "mine"
        /\ calls[c].plan[1].params.amount = 3
        /\ \E j \in 1..Len(tr) :
             /\ tr[j].e = "mineBlock"
             /\ Len(tr[j].near) = 4
        /\ Len(Only(tr, {"dig"})) = 3
        /\ Len(Only(tr, {"dug"})) = 1
        /\ calls[c].result

(***************************************************************************)
(* C37. The fallback parser looks for its keyword groups in the fixed      *)
(* order movement, chat, mining, and the first group found decides the     *)
(* whole plan: an instruction with a movement keyword and a chat or mining *)
(* keyword gives only the moveRelative plan, one with a chat and a mining  *)
(* keyword (and no movement keyword) gives only the chat plan; a fallback  *)
(* plan never has more than one action.                                    *)
(***************************************************************************)
ActionsOf(c) == calls[c].parsed.value.actions

C37_FirstGroupDecides ==
  \A c \in CallIds :
    FromFallback(c) =>
      LET s == calls[c].input
          kinds == {ActionsOf(c)[j].action : j \in 1..Len(ActionsOf(c))}
      IN  /\ Len(ActionsOf(c)) <= 1
          /\ MovementWord(s) => kinds = {"moveRelative"}
          /\ (~MovementWord(s) /\ ChatWord(s)) =>
                ActionsOf(c) = <<[action |-> "chat",
                                  params |-> [message |-> "konnichiwa!"]]>>
          /\ (~MovementWord(s) /\ ~ChatWord(s) /\ MiningWord(s)) =>
                kinds = {"mine"}
          /\ Len(Only(calls[c].trace, {"executeTask"})) <= 1

\* "dig, talk, step": the movement keyword comes last in the text and the
\* plan is the one step forward, which was carried out
C37_Witness ==
  \E c \in CallIds :
    /\ calls[c].pc = "done"
    /\ FromFallback(c)
    /\ calls[c].input = <<"u6398", "u8A71", "u6B69">>
    /\ calls[c].plan = <<MoveRelative(1, 0, 0)>>
    /\ Len(Only(calls[c].trace, {"executeTask"})) = 1

\* "dig, talk": the chat keyword comes last in the text and the plan is the
\* greeting
C37_WitnessChat ==
  \E c \in CallIds :
    /\ FromFallback(c)
    /\ calls[c].input = <<"u6398", "u8A71">>
    /\ ActionsOf(c) = <<Chat("konnichiwa!")>>

====
